---- MODULE Spec2Model ----
(***************************************************************************)
(* graphql-tools: the query and schema formatters (src/format.rs,          *)
(* src/format/query.rs, src/format/schema.rs).                             *)
(*                                                                         *)
(* Text is a sequence of one-character strings, so that lengths, line      *)
(* splitting, trimming and byte-wise string comparison are computed as the *)
(* code computes them.  An Option is a sequence of length 0 (None) or 1    *)
(* (Some).                                                                 *)
(***************************************************************************)
EXTENDS Integers, Sequences, FiniteSets, TLC

MAX_LINE_LENGTH == 80
INDENT_SIZE == 2

\* Bounds of the explored inputs.
MaxDefs == 2
MaxSel == 2
MaxArgs == 2
MaxMembers == 3
MaxAppends == 3

(***************************************************************************)
(* Characters and strings                                                  *)
(***************************************************************************)
\* The character U+0010, which no string literal can hold.
DLE == "\\u{10}"

\* The characters of the model in ascending byte order: the printable
\* ASCII characters without the grave accent (which no string literal can
\* hold), tab, line feed, form feed, carriage return and U+0010.
AsciiOrder ==
  << "\t", "\n", "\f", "\r", DLE,
     " ", "!", "\"", "#", "$", "%", "&", "'", "(", ")", "*", "+", ",", "-",
     ".", "/",
     "0", "1", "2", "3", "4", "5", "6", "7", "8", "9", ":", ";", "<", "=",
     ">", "?", "@",
     "A", "B", "C", "D", "E", "F", "G", "H", "I", "J", "K", "L", "M",
     "N", "O", "P", "Q", "R", "S", "T", "U", "V", "W", "X", "Y", "Z",
     "[", "\\", "]", "^", "_",
     "a", "b", "c", "d", "e", "f", "g", "h", "i", "j", "k", "l", "m",
     "n", "o", "p", "q", "r", "s", "t", "u", "v", "w", "x", "y", "z",
     "{", "|", "}", "~" >>

Chars == {AsciiOrder[i] : i \in 1..Len(AsciiOrder)}

Ord == [c \in Chars |-> CHOOSE i \in 1..Len(AsciiOrder) : AsciiOrder[i] = c]

Min(a, b) == IF a < b THEN a ELSE b

\* <str as Ord>::cmp: byte-wise lexicographic, a proper prefix sorts first.
StrLess(s, t) ==
  \E k \in 1..(Min(Len(s), Len(t)) + 1) :
    /\ \A j \in 1..(k - 1) : s[j] = t[j]
    /\ \/ k = Len(s) + 1 /\ k <= Len(t)
       \/ k <= Len(s) /\ k <= Len(t) /\ Ord[s[k]] < Ord[t[k]]

StrLeq(s, t) == s = t \/ StrLess(s, t)

RECURSIVE join(_, _)
\* [String]::join(sep)
join(strs, sep) ==
  IF strs = << >> THEN << >>
  ELSE IF Len(strs) = 1 THEN strs[1]
  ELSE strs[1] \o sep \o join(Tail(strs), sep)

\* char::is_whitespace, on the characters of the model.
IsSpace(c) == c \in {" ", "\n", "\t", "\r", "\f"}

\* str::trim
trim(s) ==
  IF \A i \in 1..Len(s) : IsSpace(s[i]) THEN << >>
  ELSE SubSeq(s,
              CHOOSE i \in 1..Len(s) :
                ~IsSpace(s[i]) /\ \A j \in 1..(i - 1) : IsSpace(s[j]),
              CHOOSE i \in 1..Len(s) :
                ~IsSpace(s[i]) /\ \A j \in (i + 1)..Len(s) : IsSpace(s[j]))

\* The index of the first line feed of s, Len(s) + 1 when it holds none.
LineEnd(s) ==
  CHOOSE e \in 1..(Len(s) + 1) :
    /\ e = Len(s) + 1 \/ s[e] = "\n"
    /\ \A j \in 1..(e - 1) : s[j] # "\n"

RECURSIVE lines(_)
\* str::lines: the text is split after every line feed; a line loses its
\* line feed and a carriage return that stands before the line feed.
lines(s) ==
  IF s = << >> THEN << >>
  ELSE LET line(e) ==
             <<SubSeq(s, 1, IF e <= Len(s) /\ e > 1 /\ s[e - 1] = "\r"
                            THEN e - 2 ELSE e - 1)>>
               \o lines(SubSeq(s, e + 1, Len(s)))
       IN line(LineEnd(s))

\* (usize, String) keys compare lexicographically; a name alone is a key of
\* tier 0.
KeyLess(k1, k2) ==
  \/ k1[1] < k2[1]
  \/ k1[1] = k2[1] /\ StrLess(k1[2], k2[2])

\* The longest slice the standard library sorts by insertion.
MAX_INSERTION == 20

\* The positions of `keys` whose key stands at another position too.
Tied(keys) ==
  {i \in 1..Len(keys) : \E j \in 1..Len(keys) : j # i /\ keys[j] = keys[i]}

\* The orders in which the sort can leave the equal keys of `keys`, each a
\* ranking of the tied positions.  Up to MAX_INSERTION elements the sort is
\* an insertion sort, which keeps equal elements in their order.  For
\* longer slices the order of equal elements is unspecified: every
\* permutation of the positions that hold one key is an outcome.
TieOrders(keys) ==
  IF Len(keys) <= MAX_INSERTION \/ Tied(keys) = {} THEN {<< >>}
  ELSE {r \in Permutations(Tied(keys)) : \A i \in Tied(keys) : keys[r[i]] = keys[i]}

\* Whether the sort leaves the element at position i before the one at j
\* when their keys compare equal.  The sort is deterministic: `tie` holds,
\* for the key sequences of more than MAX_INSERTION elements the build has
\* sorted, the ranking it leaves them in.
TieBefore(i, j, keys, tie) ==
  IF Len(keys) <= MAX_INSERTION \/ keys \notin DOMAIN tie THEN i < j
  ELSE tie[keys][i] < tie[keys][j]

\* slice::sort_unstable_by_key; keys[i] is the key of s[i].
sort_unstable_by_key(s, keys, tie) ==
  LET n == Len(s)
      rank(i) == Cardinality({j \in 1..n :
                    KeyLess(keys[j], keys[i])
                    \/ (~KeyLess(keys[i], keys[j]) /\ j # i
                        /\ TieBefore(j, i, keys, tie))}) + 1
  IN [p \in 1..n |-> s[CHOOSE i \in 1..n : rank(i) = p]]

\* slice::sort_unstable on strings: strings that compare equal are equal,
\* so that every order of them is the same sequence.
sort_unstable(strs) ==
  sort_unstable_by_key(strs, [i \in 1..Len(strs) |-> <<0, strs[i]>>], << >>)

(***************************************************************************)
(* Indentation and Output (src/format.rs).  A printer state is the pair    *)
(* the formatters thread through every call, plus the flag of a panic and  *)
(* what the source leaves to the build.                                    *)
(***************************************************************************)
\* What the source does not determine: whether the build checks integer
\* overflow (a debug build does, a release build does not), and the order
\* in which the sort of the standard library leaves equal keys.
Build(overflow_checks, tie) == [overflow_checks |-> overflow_checks, tie |-> tie]

\* Indentation::new(size) and Output::new().  `count` holds the usize as
\* its residue of least magnitude modulo 2^64, so that -1 is the usize
\* 18446744073709551615.  `panic` is set once the call has unwound; `low`
\* records the lowest value the counter would have taken without a width.
NewState(size, build) ==
  [buf |-> << >>, size |-> size, count |-> 0, panic |-> FALSE, low |-> 0,
   build |-> build]

\* A decrement that takes two levels off.
decrement_by_two(st) ==
  [st EXCEPT !.count = @ - 2, !.low = Min(@, st.count - 2)]

\* self.count -= 1: at zero the subtraction overflows, which panics where
\* overflow is checked and wraps to the largest usize where it is not.
decrement(st) ==
  IF st.panic THEN st
  ELSE IF st.count = 0 /\ st.build.overflow_checks
  THEN [st EXCEPT !.panic = TRUE, !.low = -1]
  ELSE [st EXCEPT !.count = @ - 1, !.low = Min(@, st.count - 1)]

\* self.count += 1: at the largest usize the addition overflows.
increment(st) ==
  IF st.panic THEN st
  ELSE IF st.count = -1 /\ st.build.overflow_checks
  THEN [st EXCEPT !.panic = TRUE]
  ELSE [st EXCEPT !.count = @ + 1]

\* count * size spaces, for a product that is a length.
spaces(st) == [i \in 1..(st.count * st.size) |-> " "]

\* self.count * self.size leaves the range of a usize or is the length of
\* a string no memory holds: the multiplication panics where overflow is
\* checked, and the loop of spaces() exhausts the memory where it is not.
SpacesEnd(st) == st.count * st.size >= 0

push(st, s) ==
  IF st.panic THEN st
  ELSE IF ~SpacesEnd(st) THEN [st EXCEPT !.panic = TRUE]
  ELSE [st EXCEPT !.buf = @ \o spaces(st) \o s]

push_str(st, s) == IF st.panic THEN st ELSE [st EXCEPT !.buf = @ \o s]

\* The text after the last newline of the buffer.
current_line_after_last_newline(buf) ==
  LET nl == {i \in 1..Len(buf) : buf[i] = "\n"}
      start == IF nl = {} THEN 1
               ELSE 1 + CHOOSE i \in nl : \A j \in nl : j <= i
  IN SubSeq(buf, start, Len(buf))

\* Iterator::last().unwrap_or(default)
last_or(s, default) == IF s = << >> THEN default ELSE s[Len(s)]

\* self.buf.lines().last().unwrap_or(""): a final newline ends the last
\* line and does not start another.
current_line(buf) == last_or(lines(buf), << >>)

current_line_length(st) == Len(current_line(st.buf))

\* todo!, unimplemented!: the call unwinds, nothing more is written.
todo(st) == [st EXCEPT !.panic = TRUE]

\* todo_field!(value, field)
todo_field(st, field) == IF field # << >> THEN todo(st) ELSE st

(***************************************************************************)
(* Query documents (src/format/query.rs)                                   *)
(***************************************************************************)
OperationTypeToString(kind) ==
  CASE kind = "Query" -> <<"q", "u", "e", "r", "y">>
    [] kind = "Mutation" -> <<"m", "u", "t", "a", "t", "i", "o", "n">>
    [] kind = "Subscription" ->
         <<"s", "u", "b", "s", "c", "r", "i", "p", "t", "i", "o", "n">>

\* The key with the tiers of leaf fields and of fields with a nested
\* selection exchanged.
selection_set_sort_key_swapped(sel) ==
  CASE sel.kind = "FragmentSpread" -> <<3, sel.name>>
    [] sel.kind = "InlineFragment" ->
         IF sel.type_condition # << >> THEN <<4, sel.type_condition[1]>>
         ELSE <<5, << >> >>
    [] sel.kind = "Field" ->
         IF sel.selection_set = << >> THEN <<2, sel.name>>
         ELSE <<1, sel.name>>

\* (tier, name); tuples compare lexicographically.
selection_set_sort_key(sel) ==
  CASE sel.kind = "FragmentSpread" -> <<3, sel.name>>
    [] sel.kind = "InlineFragment" ->
         IF sel.type_condition # << >> THEN <<4, sel.type_condition[1]>>
         ELSE <<5, << >> >>
    [] sel.kind = "Field" ->
         IF sel.selection_set = << >> THEN <<1, sel.name>>
         ELSE <<2, sel.name>>

\* The keys sort_unstable_by_key(selection_set_sort_key) computes.
SelectionKeys(items) ==
  [i \in 1..Len(items) |-> selection_set_sort_key(items[i])]

\* The argument strings a field prints, "{arg}: {value}".
QueryArgStrings(arguments) ==
  [i \in 1..Len(arguments) |-> arguments[i][1] \o <<":", " ">> \o arguments[i][2]]

RECURSIVE push_args_lines(_, _)
\* args.iter().for_each(|arg| out.push(format!("{},\n", arg), indent))
push_args_lines(st, args) ==
  IF args = << >> THEN st
  ELSE push_args_lines(push(st, args[1] \o <<",", "\n">>), Tail(args))

\* The argument list wrapped already at MAX_LINE_LENGTH.
format_args_inclusive(st, sorted_args) ==
  LET args(current_len, args_joined) ==
        IF current_len + Len(args_joined) >= MAX_LINE_LENGTH
        THEN push(decrement(push_args_lines(push_str(increment(st), <<"\n">>),
                                            sorted_args)),
                  <<")">>)
        ELSE push_str(st, args_joined)
  IN args(current_line_length(st), join(sorted_args, <<",", " ">>) \o <<")">>)

\* The argument list after the opening parenthesis: inline, or one argument
\* per line when the projected line (current_len and the length of
\* args_joined) is longer than MAX_LINE_LENGTH.
format_args(st, sorted_args) ==
  LET args(current_len, args_joined) ==
        IF current_len + Len(args_joined) > MAX_LINE_LENGTH
        THEN push(decrement(push_args_lines(push_str(increment(st), <<"\n">>),
                                            sorted_args)),
                  <<")">>)
        ELSE push_str(st, args_joined)
  IN args(current_line_length(st), join(sorted_args, <<",", " ">>) \o <<")">>)

RECURSIVE format_selection_set(_, _), format_selections(_, _),
          format_field(_, _), format_inline_fragment(_, _)

\* todo_field!(field, directives), then the alias and the name, the
\* arguments, and a newline or the nested selection set.
format_field(field, st) ==
  LET name == IF field.alias # << >>
              THEN field.alias[1] \o <<":", " ">> \o field.name
              ELSE field.name
      selection_set(s) ==
        IF field.selection_set = << >> THEN push_str(s, <<"\n">>)
        ELSE format_selection_set(field.selection_set, s)
  IN selection_set(
       IF field.arguments # << >>
       THEN format_args(push_str(push(todo_field(st, field.directives), name),
                                 <<"(">>),
                        sort_unstable(QueryArgStrings(field.arguments)))
       ELSE push(todo_field(st, field.directives), name))

format_inline_fragment(frag, st) ==
  format_selection_set(
    frag.selection_set,
    IF frag.type_condition # << >>
    THEN push_str(push(todo_field(st, frag.directives), <<".", ".", ".">>),
                  <<" ", "o", "n", " ">> \o frag.type_condition[1])
    ELSE push(todo_field(st, frag.directives), <<".", ".", ".">>))

\* The for loop of format_selection_set over the sorted items.
format_selections(items, st) ==
  IF items = << >> \/ st.panic THEN st
  ELSE format_selections(
         Tail(items),
         CASE items[1].kind = "Field" -> format_field(items[1], st)
           [] items[1].kind = "FragmentSpread" ->
                push(todo_field(st, items[1].directives),
                     <<".", ".", ".">> \o items[1].name \o <<"\n">>)
           [] items[1].kind = "InlineFragment" ->
                format_inline_fragment(items[1], st))

format_selection_set(items, st) ==
  IF items = << >> THEN st
  ELSE push(decrement(format_selections(
              sort_unstable_by_key(items, SelectionKeys(items), st.build.tie),
              increment(push_str(st, <<" ", "{", "\n">>)))),
            <<"}", "\n">>)

\* A variable definition printed without its default value.
VariableStringWithoutDefault(var) ==
  <<"$">> \o var.name \o <<":", " ">> \o var.var_type

\* "${name}: {type}" and " = {default}" when there is one.
VariableString(var) ==
  <<"$">> \o var.name \o <<":", " ">> \o var.var_type
    \o (IF var.default_value # << >>
        THEN <<" ", "=", " ">> \o var.default_value[1] ELSE << >>)

format_operation_type(op, st) ==
  LET has_name == op.name # << >>
      head == OperationTypeToString(op.kind)
                \o (IF has_name THEN <<" ">> \o op.name[1] ELSE << >>)
      vars == [i \in 1..Len(op.variable_definitions) |->
                 VariableString(op.variable_definitions[i])]
  IN push_str(
       format_selection_set(
         op.selection_set,
         IF op.variable_definitions # << >>
         THEN push_str(push(todo_field(st, op.directives), head),
                       (IF has_name THEN <<"(">> ELSE <<" ", "(">>)
                         \o join(vars, <<",", " ">>) \o <<")">>)
         ELSE push(todo_field(st, op.directives), head)),
       <<"\n">>)

format_fragment(frag, st) ==
  format_selection_set(frag.selection_set,
    push(st, <<"f", "r", "a", "g", "m", "e", "n", "t", " ">> \o frag.name[1]
             \o <<" ", "o", "n", " ">> \o frag.type_condition[1]))

format_operation(op, st) ==
  IF op.kind = "SelectionSet" THEN format_selection_set(op.selection_set, st)
  ELSE format_operation_type(op, st)

query_format_def(def, st) ==
  IF def.kind = "Fragment" THEN format_fragment(def, st)
  ELSE format_operation(def, st)

(***************************************************************************)
(* Schema documents (src/format/schema.rs)                                 *)
(***************************************************************************)
\* map_join over the sorted items.
map_join_sorted(strs, sep, st) == push_str(st, join(sort_unstable(strs), sep))

\* map_join with the identity mapper.
map_join(strs, sep, st) == push_str(st, join(strs, sep))

push_desc(desc, st) ==
  IF desc # << >> THEN push(st, <<"\"">> \o desc[1] \o <<"\"", "\n">>) ELSE st

\* Keys that are all equal: the sort leaves the items in their order.
NameKeysEqual(items) == [i \in 1..Len(items) |-> <<0, << >> >>]

\* The keys of |field| field.name.clone()
NameKeys(items) == [i \in 1..Len(items) |-> <<0, items[i].name>>]

format_input_value(value, st) ==
  push(push_desc(value.description, st),
       value.name \o <<":", " ">> \o value.value_type)

\* A field argument, formatted into an Output of its own without
\* indentation and trimmed.
SchemaArgStrings(arguments, build) ==
  [i \in 1..Len(arguments) |->
     trim(format_input_value(arguments[i], NewState(0, build)).buf)]

schema_format_field(field, st) ==
  push_str(
    IF field.arguments # << >>
    THEN format_args(
           push_str(push(push_desc(field.description, st), field.name), <<"(">>),
           sort_unstable(SchemaArgStrings(field.arguments, st.build)))
    ELSE push(push_desc(field.description, st), field.name),
    <<":", " ">> \o field.field_type \o <<"\n">>)

RECURSIVE schema_format_field_loop(_, _)
schema_format_field_loop(fields, st) ==
  IF fields = << >> THEN st
  ELSE schema_format_field_loop(Tail(fields), schema_format_field(fields[1], st))

format_fields(fields, st) ==
  decrement(schema_format_field_loop(
              sort_unstable_by_key(fields, NameKeys(fields), st.build.tie),
              increment(st)))

\* with_position without Only: a sole element is the Last one.
PositionOnlyAsLast(i, n) ==
  IF i = n THEN "Last"
  ELSE IF i = 1 THEN "First"
  ELSE "Middle"

\* itertools with_position
Position(i, n) ==
  IF n = 1 THEN "Only"
  ELSE IF i = 1 THEN "First"
  ELSE IF i = n THEN "Last"
  ELSE "Middle"

RECURSIVE format_input_values_loop(_, _, _, _)
\* The for loop of format_input_values over the sorted values, from index i.
format_input_values_loop(values, i, has_docs, st) ==
  IF i > Len(values) THEN st
  ELSE LET no_docs == ~has_docs
           push_newline_because_docs(pos) ==
             pos \in {"First", "Middle"} /\ has_docs
           newline(pos, s) ==
             IF push_newline_because_docs(pos) THEN push_str(s, <<"\n", "\n">>)
             ELSE IF no_docs THEN push_str(s, <<"\n">>)
             ELSE s
           last_newline(pos, s) ==
             IF pos = "Last" /\ ~no_docs THEN push_str(s, <<"\n">>) ELSE s
       IN format_input_values_loop(
            values, i + 1, has_docs,
            last_newline(Position(i, Len(values)),
                         newline(Position(i, Len(values)),
                                 format_input_value(values[i], st))))

\* format_input_values with an assertion that fails on a mixed block.
format_input_values_strict(values, st) ==
  LET block(sorted, has_docs, all_docs) ==
        decrement(format_input_values_loop(
                    sorted, 1, has_docs,
                    IF has_docs /\ ~all_docs THEN todo(increment(st))
                    ELSE increment(st)))
      docs(sorted) ==
        block(sorted,
              \E i \in 1..Len(sorted) : sorted[i].description # << >>,
              \A i \in 1..Len(sorted) : sorted[i].description # << >>)
  IN docs(sort_unstable_by_key(values, NameKeys(values), st.build.tie))

format_input_values(values, st) ==
  LET block(sorted, has_docs, no_docs) ==
        decrement(format_input_values_loop(
                    sorted, 1, has_docs,
                    IF has_docs /\ no_docs THEN todo(increment(st))
                    ELSE increment(st)))
      docs(sorted) ==
        block(sorted,
              \E i \in 1..Len(sorted) : sorted[i].description # << >>,
              \A i \in 1..Len(sorted) : sorted[i].description = << >>)
  IN docs(sort_unstable_by_key(values, NameKeys(values), st.build.tie))

RECURSIVE push_enum_values(_, _)
push_enum_values(values, st) ==
  IF values = << >> THEN st
  ELSE push_enum_values(Tail(values), push(st, values[1].name \o <<"\n">>))

\* A closing brace that no blank line follows.
BlockEndWithoutBlankLine == <<"}", "\n">>

BlockEnd == <<"}", "\n", "\n">>

format_type(def, st) ==
  CASE def.type = "Object" ->
         push(format_fields(
                def.fields,
                push_str(
                  IF def.implements_interfaces # << >>
                  THEN map_join(
                         def.implements_interfaces, <<" ", "&", " ">>,
                         push_str(push(push_desc(def.description, st),
                                       <<"t", "y", "p", "e", " ">> \o def.name),
                                  <<" ", "i", "m", "p", "l", "e", "m", "e",
                                    "n", "t", "s", " ">>))
                  ELSE push(push_desc(def.description, st),
                            <<"t", "y", "p", "e", " ">> \o def.name),
                  <<" ", "{", "\n">>)),
              BlockEnd)
    [] def.type = "Enum" ->
         push(decrement(push_enum_values(
                sort_unstable_by_key(def.values, NameKeys(def.values),
                                     st.build.tie),
                increment(push(push_desc(def.description, st),
                               <<"e", "n", "u", "m", " ">> \o def.name
                                 \o <<" ", "{", "\n">>)))),
              BlockEnd)
    [] def.type = "Scalar" ->
         push(push_desc(def.description, st),
              <<"s", "c", "a", "l", "a", "r", " ">> \o def.name
                \o <<"\n", "\n">>)
    [] def.type = "Interface" ->
         push(format_fields(
                def.fields,
                push(push_desc(def.description, st),
                     <<"i", "n", "t", "e", "r", "f", "a", "c", "e", " ">>
                       \o def.name \o <<" ", "{", "\n">>)),
              BlockEnd)
    [] def.type = "InputObject" ->
         push(format_input_values(
                def.input_fields,
                push(push_desc(def.description, st),
                     <<"i", "n", "p", "u", "t", " ">> \o def.name
                       \o <<" ", "{", "\n">>)),
              BlockEnd)
    [] def.type = "Union" ->
         push_str(map_join(sort_unstable(def.types), <<" ", "|", " ">>,
                           push(push_desc(def.description, st),
                                <<"u", "n", "i", "o", "n", " ">> \o def.name
                                  \o <<" ", "=", " ">>)),
                  <<"\n", "\n">>)

RootLine(keyword, root, st) ==
  IF root # << >> THEN push(st, keyword \o <<":", " ">> \o root[1] \o <<"\n">>)
  ELSE st

\* format_def skipping the definitions it cannot print.
schema_format_def_skipping(def, st) ==
  CASE def.kind = "SchemaDefinition" ->
         push(decrement(
                RootLine(<<"s", "u", "b", "s", "c", "r", "i", "p", "t", "i", "o", "n">>,
                         def.subscription,
                  RootLine(<<"q", "u", "e", "r", "y">>, def.query,
                    RootLine(<<"m", "u", "t", "a", "t", "i", "o", "n">>,
                             def.mutation,
                      increment(push(st, <<"s", "c", "h", "e", "m", "a", " ",
                                           "{", "\n">>)))))),
              BlockEnd)
    [] def.kind = "TypeDefinition" -> format_type(def, st)
    [] def.kind = "TypeExtension" -> st
    [] def.kind = "DirectiveDefinition" -> st

\* format_def with the root operation types in the order query, mutation,
\* subscription.
schema_format_def_query_first(def, st) ==
  CASE def.kind = "SchemaDefinition" ->
         push(decrement(
                RootLine(<<"s", "u", "b", "s", "c", "r", "i", "p", "t", "i", "o", "n">>,
                         def.subscription,
                  RootLine(<<"m", "u", "t", "a", "t", "i", "o", "n">>,
                           def.mutation,
                    RootLine(<<"q", "u", "e", "r", "y">>, def.query,
                      increment(push(st, <<"s", "c", "h", "e", "m", "a", " ",
                                           "{", "\n">>)))))),
              BlockEnd)
    [] def.kind = "TypeDefinition" -> format_type(def, st)
    [] def.kind = "TypeExtension" -> todo(st)
    [] def.kind = "DirectiveDefinition" -> todo(st)

\* The schema block with its root lines in the order mutation, query,
\* subscription; a type definition; unimplemented!() for the rest.
schema_format_def(def, st) ==
  CASE def.kind = "SchemaDefinition" ->
         push(decrement(
                RootLine(<<"s", "u", "b", "s", "c", "r", "i", "p", "t", "i", "o", "n">>,
                         def.subscription,
                  RootLine(<<"q", "u", "e", "r", "y">>, def.query,
                    RootLine(<<"m", "u", "t", "a", "t", "i", "o", "n">>,
                             def.mutation,
                      increment(push(st, <<"s", "c", "h", "e", "m", "a", " ",
                                           "{", "\n">>)))))),
              BlockEnd)
    [] def.kind = "TypeDefinition" -> format_type(def, st)
    [] def.kind = "TypeExtension" -> todo(st)
    [] def.kind = "DirectiveDefinition" -> todo(st)

(***************************************************************************)
(* Inputs: the query ASTs graphql_parser::parse_query hands to format_doc. *)
(***************************************************************************)
SeqsUpTo(S, n) == UNION {[1..k -> S] : k \in 1..n}

\* A string of n characters "E": an enum value (a Name) of that length.
Long(n) == [i \in 1..n |-> "E"]

Field(alias, name, arguments, directives, selection_set) ==
  [kind |-> "Field", alias |-> alias, name |-> name, arguments |-> arguments,
   directives |-> directives, selection_set |-> selection_set,
   type_condition |-> << >>]

FragmentSpread(fragment_name, directives) ==
  [kind |-> "FragmentSpread", alias |-> << >>, name |-> fragment_name,
   arguments |-> << >>, directives |-> directives, selection_set |-> << >>,
   type_condition |-> << >>]

InlineFragment(type_condition, directives, selection_set) ==
  [kind |-> "InlineFragment", alias |-> << >>, name |-> << >>,
   arguments |-> << >>, directives |-> directives,
   selection_set |-> selection_set, type_condition |-> type_condition]

Leaf(name) == Field(<< >>, name, << >>, << >>, << >>)

ADirective == << <<"d">> >>

\* The selections a selection set of the explored documents is drawn from.
SelAtoms ==
  { Leaf(<<"a">>), Leaf(<<"b">>),
    Field(<< <<"x">> >>, <<"a">>, << >>, << >>, << >>),
    Field(<< >>, <<"a">>, << >>, << >>, <<Leaf(<<"b">>), Leaf(<<"a">>)>>),
    Field(<< >>, <<"b">>, << >>, << >>,
          <<InlineFragment(<< >>, << >>, <<Leaf(<<"a">>)>>),
            FragmentSpread(<<"F">>, << >>),
            Field(<< >>, <<"a">>, << >>, << >>, <<Leaf(<<"a">>)>>),
            Leaf(<<"b">>)>>),
    FragmentSpread(<<"F">>, << >>), FragmentSpread(<<"G">>, << >>),
    InlineFragment(<< <<"T">> >>, << >>, <<Leaf(<<"b">>), Leaf(<<"a">>)>>),
    InlineFragment(<< <<"U">> >>, << >>, <<Leaf(<<"a">>)>>),
    InlineFragment(<< >>, << >>, <<Leaf(<<"a">>)>>),
    InlineFragment(<< >>, << >>, <<Leaf(<<"b">>)>>),
    Field(<< >>, <<"a">>, << >>, ADirective, << >>),
    FragmentSpread(<<"F">>, ADirective),
    InlineFragment(<< <<"T">> >>, ADirective, <<Leaf(<<"a">>)>>),
    Field(<< >>, <<"b">>, << >>, << >>,
          <<Leaf(<<"a">>), Field(<< >>, <<"b">>, << >>, ADirective, << >>)>>) }

ArgNames == { <<"a">>, <<"a", "1">>, <<"b">> }

\* "  f(" is 4 columns, "a: " 3 and ")" 1: with a value of MAX_LINE_LENGTH - 8
\* characters the line is exactly MAX_LINE_LENGTH long.
ArgValues == { <<"1">>, Long(MAX_LINE_LENGTH - 8), Long(MAX_LINE_LENGTH - 7) }

ArgPool == ArgNames \X ArgValues

Operation(kind, name, variable_definitions, directives, selection_set) ==
  [kind |-> kind, name |-> name, variable_definitions |-> variable_definitions,
   directives |-> directives, selection_set |-> selection_set,
   type_condition |-> << >>]

FragmentDefinition(name, type_condition, directives, selection_set) ==
  [kind |-> "Fragment", name |-> << name >>, variable_definitions |-> << >>,
   directives |-> directives, selection_set |-> selection_set,
   type_condition |-> << type_condition >>]

VariableDefinition(name, var_type, default_value) ==
  [name |-> name, var_type |-> var_type, default_value |-> default_value]

OneLeaf == <<Leaf(<<"a">>)>>

\* Definitions with every kind of header over the selection set { a }.
QueryTopDefs ==
  { Operation("Query", << >>, << >>, << >>, OneLeaf),
    Operation("Query", << <<"Q">> >>, << >>, << >>, OneLeaf),
    Operation("Mutation", << <<"M">> >>, << >>, << >>, OneLeaf),
    Operation("Subscription", << >>, << >>, << >>, OneLeaf),
    Operation("Query", << <<"Q">> >>,
              <<VariableDefinition(<<"v">>, <<"I", "n", "t">>, << >>)>>,
              << >>, OneLeaf),
    Operation("Query", << >>,
              <<VariableDefinition(<<"v">>, <<"I", "n", "t">>, << <<"1">> >>),
                VariableDefinition(<<"u">>, <<"I", "n", "t", "!">>, << >>)>>,
              << >>, OneLeaf),
    Operation("Query", << <<"Q">> >>, << >>, ADirective, OneLeaf),
    Operation("SelectionSet", << >>, << >>, << >>, OneLeaf),
    FragmentDefinition(<<"F">>, <<"T">>, << >>, OneLeaf),
    FragmentDefinition(<<"F">>, <<"T">>, ADirective, OneLeaf) }

\* A query around every selection set of at most MaxSel selections, and
\* one definition of each other shape around every selection.
QuerySelectionDefs ==
  { Operation("Query", << >>, << >>, << >>, set) :
    set \in SeqsUpTo(SelAtoms, MaxSel) }
  \cup
  UNION { { Operation("SelectionSet", << >>, << >>, << >>, set),
            FragmentDefinition(<<"F">>, <<"T">>, << >>, set) } :
          set \in SeqsUpTo(SelAtoms, 1) }

\* query { f(args) } for every argument list of at most MaxArgs arguments,
\* and an aliased field with a nested selection one level deeper, where
\* "    x: f(" is 9 columns.
QueryArgumentDefs ==
  { Operation("Query", << >>, << >>, << >>,
              <<Field(<< >>, <<"f">>, args, << >>, << >>)>>) :
    args \in SeqsUpTo(ArgPool, MaxArgs) }
  \cup
  { Operation("Query", << >>, << >>, << >>,
      <<Field(<< >>, <<"g">>, << >>, << >>,
          <<Field(<< <<"x">> >>, <<"f">>, << <<<<"a">>, Long(n)>> >>, << >>,
                  OneLeaf)>>)>>) :
    n \in {MAX_LINE_LENGTH - 13, MAX_LINE_LENGTH - 12} }

\* The Display of values of every other kind: a string, a string of two
\* lines, a list, an object and a float.
OtherValues ==
  { <<"\"", "s", "\"">>,
    <<"\"", "\"", "\"", "\n", " ", " ", "x", "\n", " ", " ", "y", "\n",
      "\"", "\"", "\"">>,
    <<"[", "1", ",", " ", "2", "]">>,
    <<"{", "a", ":", " ", "1", "}">>,
    <<"1", ".", "5">> }

\* query { f(a: value) } for these values, and a variable of a list type
\* with a default value.
QueryValueDefs ==
  { Operation("Query", << >>, << >>, << >>,
              <<Field(<< >>, <<"f">>, << <<<<"a">>, v>> >>, << >>, << >>)>>) :
    v \in OtherValues }
  \cup
  { Operation("Query", << >>,
              <<VariableDefinition(<<"v">>, <<"[", "I", "n", "t", "!", "]", "!">>,
                                   << <<"[", "1", "]">> >>)>>,
              << >>, OneLeaf) }

\* A selection set one longer than the sort handles by insertion: a, x: a
\* and y: a, whose sort keys are equal, and fields of other names.
LongSet ==
  <<Leaf(<<"a">>), Field(<< <<"x">> >>, <<"a">>, << >>, << >>, << >>),
    Field(<< <<"y">> >>, <<"a">>, << >>, << >>, << >>)>>
  \o [i \in 1..(MAX_INSERTION - 2) |-> Leaf(<<"n", AsciiOrder[Ord["A"] + i]>>)]

QueryLongDefs ==
  { Operation("Query", << >>, << >>, << >>,
              <<Field(<< >>, <<"f">>, << >>, << >>, LongSet)>>) }

QueryDefs ==
  QueryTopDefs \cup QuerySelectionDefs \cup QueryArgumentDefs
    \cup QueryValueDefs \cup QueryLongDefs

(***************************************************************************)
(* graphql_parser: its tokenizer, the grammars of parse_query and          *)
(* parse_schema, and the Display of the values and types it parses, which  *)
(* is all the formatters read of them.  A parse result is [ok, v, i,       *)
(* panic]: success, the value, the index of the next token, and whether    *)
(* the parser unwound.  The texts are over the characters of Chars.        *)
(***************************************************************************)
Digits == {"0", "1", "2", "3", "4", "5", "6", "7", "8", "9"}

IsDigit(c) == c \in Digits

\* The characters a name starts with: [_A-Za-z].
NameStartChars ==
  {AsciiOrder[k] : k \in Ord["A"]..Ord["Z"]}
    \cup {AsciiOrder[k] : k \in Ord["a"]..Ord["z"]}
    \cup {"_"}

IsNameStart(c) == c \in NameStartChars

\* The characters a name goes on with: [_0-9A-Za-z].
NameChars == NameStartChars \cup Digits

\* White space and commas (the byte order mark is no character of Chars).
Ignored == {"\t", " ", "\n", "\r", ","}

IsIgnored(c) == c \in Ignored

PunctChars ==
  {"!", "$", ":", "=", "@", "|", "(", ")", "[", "]", "{", "}", "&"}

\* The characters that end the scan of a number.
NumberEnd ==
  {" ", "\n", "\r", "\t", ",", "#"} \cup PunctChars

\* The last index of the run of characters of the set P that starts at i.
RunEnd(s, i, P) ==
  CHOOSE j \in i..Len(s) :
    /\ \A k \in i..j : s[k] \in P
    /\ j = Len(s) \/ s[j + 1] \notin P

\* The first index from i on of a character of the set P, Len(s) + 1 when
\* there is none.
FirstOf(s, i, P) ==
  LET found == {k \in i..Len(s) : s[k] \in P}
  IN IF found = {} THEN Len(s) + 1
     ELSE CHOOSE k \in found : \A x \in found : k <= x

\* The last index of a character of the set P after the first character,
\* 0 when there is none.
LastOf(value, P) ==
  LET found == {k \in 2..Len(value) : value[k] \in P}
  IN IF found = {} THEN 0 ELSE CHOOSE k \in found : \A x \in found : x <= k

IsDigits(v) == \A k \in 1..Len(v) : IsDigit(v[k])

check_int(value) ==
  \/ value = <<"0">>
  \/ value = <<"-", "0">>
  \/ /\ value # << >> /\ value[1] # "0"
     /\ value # <<"-">>
     /\ ~(Len(value) >= 2 /\ value[1] = "-" /\ value[2] = "0")
     /\ IsDigits(Tail(value))

check_dec(value) == value # << >> /\ IsDigits(value)

\* The first character is a sign or a digit between the digits 0 and 9.
check_exp(value) ==
  /\ value # << >>
  /\ value[1] \in {"-", "+"} \cup (Digits \ {"0", "9"})
  /\ IsDigits(Tail(value))

\* e and r are the indices of the last exponent sign and of the last dot,
\* 0 for none.
check_float(value, e, r) ==
  IF e # 0 /\ r # 0
  THEN /\ r < e
       /\ check_int(SubSeq(value, 1, r - 1))
       /\ check_dec(SubSeq(value, r + 1, e - 1))
       /\ check_exp(SubSeq(value, e + 1, Len(value)))
  ELSE IF e # 0
  THEN /\ check_int(SubSeq(value, 1, e - 1))
       /\ check_exp(SubSeq(value, e + 1, Len(value)))
  ELSE /\ check_int(SubSeq(value, 1, r - 1))
       /\ check_dec(SubSeq(value, r + 1, Len(value)))

\* Whether `pat` stands in s at index k.
StartsAt(s, k, pat) ==
  k + Len(pat) - 1 <= Len(s) /\ SubSeq(s, k, k + Len(pat) - 1) = pat

TripleQuote == <<"\"", "\"", "\"">>

RECURSIVE BlockStringEnd(_, _, _)
\* The index of the triple quote that closes the block string whose text
\* starts at `from`, searched from k on, 0 when there is none: the first
\* match that no backslash precedes; matches do not overlap.
BlockStringEnd(s, from, k) ==
  LET found == {j \in k..Len(s) : StartsAt(s, j, TripleQuote)}
      first == CHOOSE j \in found : \A x \in found : j <= x
  IN IF found = {} THEN 0
     ELSE IF first > from /\ s[first - 1] = "\\"
     THEN BlockStringEnd(s, from, first + 3)
     ELSE first

\* The index of the quote that closes the string whose text starts at
\* `from`, 0 when a newline or the end of the input comes first: a quote
\* that follows a backslash closes nothing.
StringEnd(s, from) ==
  LET stop == {j \in from..Len(s) :
                 \/ s[j] = "\"" /\ s[j - 1] # "\\"
                 \/ s[j] = "\n"}
      first == CHOOSE j \in stop : \A x \in stop : j <= x
  IN IF stop = {} \/ s[first] = "\n" THEN 0 ELSE first

Token(t, v) == [t |-> t, v |-> v]

\* What the tokenizer finds at index i of s: the token, or "skip" for
\* ignored characters and a comment, or "error" where it fails, and the
\* index it goes on from.  A string token holds the text between its
\* quotes.
Scanned(t, v, next) == [t |-> t, v |-> v, next |-> next]

NumberAt(s, i) ==
  LET j == FirstOf(s, i + 1, NumberEnd)
      value == SubSeq(s, i, j - 1)
      e == LastOf(value, {"e", "E"})
      r == LastOf(value, {"."})
  IN IF e # 0 \/ r # 0
     THEN IF check_float(value, e, r) THEN Scanned("float", value, j)
          ELSE Scanned("error", << >>, j)
     ELSE IF check_int(value) THEN Scanned("int", value, j)
          ELSE Scanned("error", << >>, j)

StringAt(s, i) ==
  IF StartsAt(s, i, TripleQuote) THEN
    LET j == BlockStringEnd(s, i + 3, i + 3)
    IN IF j = 0 THEN Scanned("error", << >>, i)
       ELSE Scanned("block", SubSeq(s, i + 3, j - 1), j + 3)
  ELSE
    LET j == StringEnd(s, i + 1)
    IN IF j = 0 THEN Scanned("error", << >>, i)
       ELSE Scanned("string", SubSeq(s, i + 1, j - 1), j + 1)

TokenAt(s, i) ==
  LET c == s[i] IN
    IF IsIgnored(c) THEN Scanned("skip", << >>, RunEnd(s, i, Ignored) + 1)
    ELSE IF c = "#"
    THEN Scanned("skip", << >>, FirstOf(s, i + 1, {"\n", "\r"}) + 1)
    ELSE IF c \in PunctChars THEN Scanned("punct", <<c>>, i + 1)
    ELSE IF c = "." THEN
      IF StartsAt(s, i, <<".", ".", ".">>)
      THEN Scanned("punct", <<".", ".", ".">>, i + 3)
      ELSE Scanned("error", << >>, i)
    ELSE IF IsNameStart(c) THEN
      LET j == RunEnd(s, i, NameChars)
      IN Scanned("name", SubSeq(s, i, j), j + 1)
    ELSE IF c = "-" \/ IsDigit(c) THEN NumberAt(s, i)
    ELSE IF c = "\"" THEN StringAt(s, i)
    ELSE Scanned("error", << >>, i)

RECURSIVE Lex(_, _)
\* The tokens of s from index i on; a token of kind "error" ends them where
\* the tokenizer fails.
Lex(s, i) ==
  IF i > Len(s) THEN << >>
  ELSE LET tok == TokenAt(s, i)
       IN IF tok.t = "skip" THEN Lex(s, tok.next)
          ELSE IF tok.t = "error" THEN <<Token("error", << >>)>>
          ELSE <<Token(tok.t, tok.v)>> \o Lex(s, tok.next)

Ok(v, i) == [ok |-> TRUE, v |-> v, i |-> i, panic |-> FALSE]

\* The parser's Err.
Fail == [ok |-> FALSE, v |-> << >>, i |-> 0, panic |-> FALSE]

\* The parser unwound: unimplemented!() in unquote_string.
Unwound == [ok |-> FALSE, v |-> << >>, i |-> 0, panic |-> TRUE]

IsPunct(toks, i, p) == i <= Len(toks) /\ toks[i].t = "punct" /\ toks[i].v = p

IsName(toks, i) == i <= Len(toks) /\ toks[i].t = "name"

IsIdent(toks, i, word) == IsName(toks, i) /\ toks[i].v = word

\* A list result: x in front of the list r parsed after it.
Prepend(x, r) == IF r.ok THEN Ok(<<x>> \o r.v, r.i) ELSE r

\* The list r, then the closing punctuator.
Closed(toks, r, close) ==
  IF ~r.ok THEN r
  ELSE IF IsPunct(toks, r.i, close) THEN Ok(r.v, r.i + 1)
  ELSE Fail

\* many1: the list r holds at least one element.
Many1(r) == IF r.ok /\ r.v = << >> THEN Fail ELSE r

RECURSIVE unquote_string(_)
\* unquote_string on the text between the quotes: [ok, v, panic].
unquote_string(s) ==
  IF s = << >> THEN Ok(<< >>, 0)
  ELSE IF s[1] # "\\" THEN Prepend(s[1], unquote_string(Tail(s)))
  ELSE LET c == s[2]
           rest == SubSeq(s, 3, Len(s))
       IN IF c \in {"\"", "\\", "/"} THEN Prepend(c, unquote_string(rest))
          ELSE IF c = "b" THEN Prepend(DLE, unquote_string(rest))
          ELSE IF c = "f" THEN Prepend("\f", unquote_string(rest))
          ELSE IF c = "n" THEN Prepend("\n", unquote_string(rest))
          ELSE IF c = "r" THEN Prepend("\r", unquote_string(rest))
          ELSE IF c = "t" THEN Prepend("\t", unquote_string(rest))
          ELSE IF c = "u" THEN Unwound
          ELSE Fail

RECURSIVE replace(_, _, _)
\* str::replace: the matches of `pat`, from the left and without overlap.
replace(s, pat, to) ==
  IF s = << >> THEN << >>
  ELSE IF StartsAt(s, 1, pat)
  THEN to \o replace(SubSeq(s, Len(pat) + 1, Len(s)), pat, to)
  ELSE <<s[1]>> \o replace(Tail(s), pat, to)

\* The number of white space characters a line starts with.
LeadingSpace(line) ==
  Cardinality({k \in 1..Len(line) : \A j \in 1..k : IsSpace(line[j])})

RECURSIVE unquote_block_lines(_, _, _, _)
\* The loop of unquote_block_string over the lines after the first:
\* <<result, last_line>>.
unquote_block_lines(ls, indent, result, last_line) ==
  IF ls = << >> THEN <<result, last_line>>
  ELSE unquote_block_lines(
         Tail(ls), indent,
         result
           \o (IF Len(ls[1]) > indent
               THEN replace(SubSeq(ls[1], indent + 1, Len(ls[1])),
                            <<"\\">> \o TripleQuote, TripleQuote)
               ELSE << >>)
           \o <<"\n">>,
         Len(result))

\* unquote_block_string on the text between the triple quotes.
unquote_block_string(s) ==
  LET ls == lines(s)
      indents == {LeadingSpace(ls[k]) : k \in {k \in 2..Len(ls) :
                                                 LeadingSpace(ls[k]) < Len(ls[k])}}
      indent == IF indents = {} THEN 0
                ELSE CHOOSE n \in indents : \A m \in indents : n <= m
      first == IF ls # << >> /\ trim(ls[1]) # << >>
               THEN trim(ls[1]) \o <<"\n">> ELSE << >>
      truncated(r) ==
        IF trim(SubSeq(r[1], r[2] + 1, Len(r[1]))) = << >>
        THEN SubSeq(r[1], 1, r[2]) ELSE r[1]
  IN IF ls = << >> THEN << >>
     ELSE truncated(unquote_block_lines(Tail(ls), indent, first, 0))

RECURSIVE Parse(_, _, _, _)

\* The rules that several rules of the grammar use are applied through
\* Parse, which is defined after them.
ParseString(toks, i) == Parse("string", toks, i, FALSE)

ParseAnyValue(toks, i, variables) == Parse("value", toks, i, variables)

ParseDirectives(toks, i) == Parse("directives", toks, i, FALSE)

ParseSelectionSet(toks, i) == Parse("selection_set", toks, i, FALSE)

\* parser `string`: a string or a block string, unquoted.
StringRule(toks, i) ==
  IF i <= Len(toks) /\ toks[i].t = "string"
  THEN LET unquoted(u) == IF u.ok THEN Ok(u.v, i + 1) ELSE u
       IN unquoted(unquote_string(toks[i].v))
  ELSE IF i <= Len(toks) /\ toks[i].t = "block"
  THEN Ok(unquote_block_string(toks[i].v), i + 1)
  ELSE Fail

\* "\u{:04}" of the characters below U+0020 other than \t, \n, \r.
EscapedCode(c) ==
  IF c = "\f" THEN <<"\\", "u", "0", "0", "1", "2">>
  ELSE <<"\\", "u", "0", "0", "1", "6">>

RECURSIVE write_escaped(_)
write_escaped(s) ==
  IF s = << >> THEN << >>
  ELSE (CASE s[1] = "\r" -> <<"\\", "r">>
          [] s[1] = "\n" -> <<"\\", "n">>
          [] s[1] = "\t" -> <<"\\", "t">>
          [] s[1] = "\"" -> <<"\\", "\"">>
          [] s[1] = "\\" -> <<"\\", "\\">>
          [] s[1] \in {"\f", DLE} -> EscapedCode(s[1])
          [] OTHER -> <<s[1]>>)
       \o write_escaped(Tail(s))

RECURSIVE write_block_lines(_)
\* A line of a block string: indented by the 2 spaces of Style::default(),
\* nothing for a blank line.
write_block_lines(ls) ==
  IF ls = << >> THEN << >>
  ELSE (IF trim(ls[1]) # << >>
        THEN <<" ", " ">> \o replace(ls[1], TripleQuote, <<"\\">> \o TripleQuote)
        ELSE << >>)
       \o <<"\n">> \o write_block_lines(Tail(ls))

\* Formatter::write_quoted: the Display of a string value.
write_quoted(s) ==
  LET has_newline == \E k \in 1..Len(s) : s[k] = "\n"
      has_nonprintable == \E k \in 1..Len(s) : s[k] \in {"\f", DLE}
  IN IF ~has_newline \/ has_nonprintable
     THEN <<"\"">> \o write_escaped(s) \o <<"\"">>
     ELSE TripleQuote \o <<"\n">> \o write_block_lines(lines(s)) \o TripleQuote

\* The largest i64 and the magnitude of the smallest.
I64Max ==
  <<"9", "2", "2", "3", "3", "7", "2", "0", "3", "6", "8", "5", "4", "7", "7",
    "5", "8", "0", "7">>

I64MinMagnitude ==
  <<"9", "2", "2", "3", "3", "7", "2", "0", "3", "6", "8", "5", "4", "7", "7",
    "5", "8", "0", "8">>

\* str::parse::<i64> on an int token and the Display of the number: [ok, v].
DisplayInt(value, i) ==
  LET negative == value[1] = "-"
      digits == IF negative THEN Tail(value) ELSE value
      bound == IF negative THEN I64MinMagnitude ELSE I64Max
  IN IF Len(digits) > Len(bound)
        \/ (Len(digits) = Len(bound) /\ StrLess(bound, digits))
     THEN Fail
     ELSE IF value = <<"-", "0">> THEN Ok(<<"0">>, i)
     ELSE Ok(value, i)

RECURSIVE ToNat(_)
\* The number a string of at most 4 digits denotes, 10000 for a longer one.
ToNat(digits) ==
  IF digits = << >> THEN 0
  ELSE IF digits[1] = "0" /\ Len(digits) > 1 THEN ToNat(Tail(digits))
  ELSE IF Len(digits) > 4 THEN 10000
  ELSE LET low == ToNat(SubSeq(digits, 1, Len(digits) - 1))
       IN 10 * (IF Len(digits) = 1 THEN 0 ELSE low)
          + (Ord[digits[Len(digits)]] - Ord["0"])

Zeros(n) == [k \in 1..n |-> "0"]

\* str::parse::<f64> on a float token that holds a digit after its exponent
\* sign (for another one it is an Err), and the Display of the number, which
\* is the shortest decimal expansion that denotes it, without an exponent:
\* computed here on the decimal digits, which is exact for tokens of at
\* most 15 significant digits within the range of the normal f64.
DisplayFloat(value, e, r) ==
  LET negative == value[1] = "-"
      from == IF negative THEN 2 ELSE 1
      int_end == IF r # 0 THEN r - 1 ELSE e - 1
      int_part == SubSeq(value, from, int_end)
      frac_part == IF r = 0 THEN << >>
                   ELSE SubSeq(value, r + 1, IF e # 0 THEN e - 1 ELSE Len(value))
      exp_text == IF e = 0 THEN << >> ELSE SubSeq(value, e + 1, Len(value))
      exp_digits == IF exp_text # << >> /\ exp_text[1] \in {"-", "+"}
                    THEN Tail(exp_text) ELSE exp_text
      exponent == IF exp_text # << >> /\ exp_text[1] = "-"
                  THEN 0 - ToNat(exp_digits) ELSE ToNat(exp_digits)
      all == int_part \o frac_part
      zeros == Cardinality({k \in 1..Len(all) : \A j \in 1..k : all[j] = "0"})
      kept == {k \in 1..Len(all) : all[k] # "0"}
      last == IF kept = {} THEN 0 ELSE CHOOSE k \in kept : \A x \in kept : x <= k
      digits == SubSeq(all, zeros + 1, last)
      point == Len(int_part) + exponent - zeros
      sign == IF negative THEN <<"-">> ELSE << >>
  IN IF digits = << >> \/ point < 0 - 323 THEN sign \o <<"0">>
     ELSE IF point > 309 THEN sign \o <<"i", "n", "f">>
     ELSE IF point <= 0 THEN sign \o <<"0", ".">> \o Zeros(0 - point) \o digits
     ELSE IF point >= Len(digits)
     THEN sign \o digits \o Zeros(point - Len(digits))
     ELSE sign \o SubSeq(digits, 1, point) \o <<".">>
          \o SubSeq(digits, point + 1, Len(digits))

\* The Display of an object value: a BTreeMap, which lists its keys in
\* ascending order and holds for each the value given last.
DisplayObject(entries) ==
  LET keys == {entries[k][1] : k \in 1..Len(entries)}
      rank(key) == 1 + Cardinality({x \in keys : StrLess(x, key)})
      value(key) ==
        entries[CHOOSE k \in 1..Len(entries) :
                  /\ entries[k][1] = key
                  /\ \A j \in (k + 1)..Len(entries) : entries[j][1] # key][2]
      sorted == [p \in 1..Cardinality(keys) |->
                   LET key == CHOOSE x \in keys : rank(x) = p
                   IN key \o <<":", " ">> \o value(key)]
  IN <<"{">> \o join(sorted, <<",", " ">>) \o <<"}">>

RECURSIVE ParseValueList(_, _, _), ParseObjectFields(_, _, _)

\* A value, kept as its Display: a variable (where `variables` allows it),
\* an int, a float, a string, true, false, null, an enum value, a list or
\* an object.
ValueRule(toks, i, variables) ==
  IF i > Len(toks) THEN Fail
  ELSE IF variables /\ IsPunct(toks, i, <<"$">>) THEN
    IF IsName(toks, i + 1) THEN Ok(<<"$">> \o toks[i + 1].v, i + 2) ELSE Fail
  ELSE IF toks[i].t = "int" THEN DisplayInt(toks[i].v, i + 1)
  ELSE IF toks[i].t = "float" THEN
    IF toks[i].v[Len(toks[i].v)] \in {"-", "+"} THEN Fail
    ELSE Ok(DisplayFloat(toks[i].v, LastOf(toks[i].v, {"e", "E"}),
                         LastOf(toks[i].v, {"."})), i + 1)
  ELSE IF toks[i].t \in {"string", "block"} THEN
    LET quoted(u) == IF u.ok THEN Ok(write_quoted(u.v), u.i) ELSE u
    IN quoted(ParseString(toks, i))
  ELSE IF toks[i].t = "name" THEN Ok(toks[i].v, i + 1)
  ELSE IF IsPunct(toks, i, <<"[">>) THEN
    LET list(items) ==
          IF items.ok
          THEN Ok(<<"[">> \o join(items.v, <<",", " ">>) \o <<"]">>, items.i)
          ELSE items
    IN list(Closed(toks, ParseValueList(toks, i + 1, variables), <<"]">>))
  ELSE IF IsPunct(toks, i, <<"{">>) THEN
    LET object(fields) ==
          IF fields.ok THEN Ok(DisplayObject(fields.v), fields.i) ELSE fields
    IN object(Closed(toks, ParseObjectFields(toks, i + 1, variables), <<"}">>))
  ELSE Fail

\* many(value) up to the closing bracket.
ParseValueList(toks, i, variables) ==
  IF i > Len(toks) \/ IsPunct(toks, i, <<"]">>) THEN Ok(<< >>, i)
  ELSE LET item(v) ==
             IF v.ok THEN Prepend(v.v, ParseValueList(toks, v.i, variables))
             ELSE v
       IN item(ParseAnyValue(toks, i, variables))

\* many(name ":" value)
ParseObjectFields(toks, i, variables) ==
  IF IsName(toks, i) THEN
    IF IsPunct(toks, i + 1, <<":">>) THEN
      LET field(v) ==
            IF v.ok
            THEN Prepend(<<toks[i].v, v.v>>,
                         ParseObjectFields(toks, v.i, variables))
            ELSE v
      IN field(ParseAnyValue(toks, i + 2, variables))
    ELSE Fail
  ELSE Ok(<< >>, i)

\* parser `value`
ParseValue(toks, i) == ParseAnyValue(toks, i, TRUE)

\* parser `default_value`: a value that holds no variable.
ParseDefaultValue(toks, i) == ParseAnyValue(toks, i, FALSE)

RECURSIVE ParseArgumentList(_, _)
\* many(name ":" value)
ParseArgumentList(toks, i) ==
  IF IsName(toks, i) THEN
    IF IsPunct(toks, i + 1, <<":">>) THEN
      LET argument(v) ==
            IF v.ok THEN Prepend(<<toks[i].v, v.v>>, ParseArgumentList(toks, v.i))
            ELSE v
      IN argument(ParseValue(toks, i + 2))
    ELSE Fail
  ELSE Ok(<< >>, i)

\* optional("(" many1(argument) ")")
ParseArguments(toks, i) ==
  IF IsPunct(toks, i, <<"(">>)
  THEN Closed(toks, Many1(ParseArgumentList(toks, i + 1)), <<")">>)
  ELSE Ok(<< >>, i)

\* many("@" name arguments); a directive is kept as its name.
DirectivesRule(toks, i) ==
  IF IsPunct(toks, i, <<"@">>) THEN
    IF IsName(toks, i + 1) THEN
      LET directive(a) ==
            IF a.ok THEN Prepend(toks[i + 1].v, ParseDirectives(toks, a.i))
            ELSE a
      IN directive(ParseArguments(toks, i + 2))
    ELSE Fail
  ELSE Ok(<< >>, i)

RECURSIVE ParseSelections(_, _), ParseSelection(_, _)

\* "{" many1(selection) "}"
SelectionSetRule(toks, i) ==
  IF IsPunct(toks, i, <<"{">>)
  THEN Closed(toks, Many1(ParseSelections(toks, i + 1)), <<"}">>)
  ELSE Fail

ParseSelections(toks, i) ==
  IF i > Len(toks) \/ IsPunct(toks, i, <<"}">>) THEN Ok(<< >>, i)
  ELSE LET selection(s) ==
             IF s.ok THEN Prepend(s.v, ParseSelections(toks, s.i)) ELSE s
       IN selection(ParseSelection(toks, i))

ParseSelection(toks, i) ==
  IF IsPunct(toks, i, <<".", ".", ".">>) THEN
    LET inline(type_condition, d, b) ==
          IF b.ok THEN Ok(InlineFragment(type_condition, d.v, b.v), b.i)
          ELSE b
        inline_body(type_condition, d) ==
          IF d.ok THEN inline(type_condition, d, ParseSelectionSet(toks, d.i))
          ELSE d
        spread(d) ==
          IF d.ok THEN Ok(FragmentSpread(toks[i + 1].v, d.v), d.i) ELSE d
    IN IF IsIdent(toks, i + 1, <<"o", "n">>)
       THEN IF IsName(toks, i + 2)
            THEN inline_body(<<toks[i + 2].v>>, ParseDirectives(toks, i + 3))
            ELSE Fail
       ELSE IF IsName(toks, i + 1) THEN spread(ParseDirectives(toks, i + 2))
       ELSE inline_body(<< >>, ParseDirectives(toks, i + 1))
  ELSE IF IsName(toks, i) THEN
    LET aliased == IsPunct(toks, i + 1, <<":">>) /\ IsName(toks, i + 2)
        alias == IF aliased THEN <<toks[i].v>> ELSE << >>
        name == IF aliased THEN toks[i + 2].v ELSE toks[i].v
        field(a, d, b) ==
          IF b.ok THEN Ok(Field(alias, name, a.v, d.v, b.v), b.i) ELSE b
        field_body(a, d) ==
          IF ~d.ok THEN d
          ELSE IF IsPunct(toks, d.i, <<"{">>)
          THEN field(a, d, ParseSelectionSet(toks, d.i))
          ELSE field(a, d, Ok(<< >>, d.i))
        field_directives(a) ==
          IF a.ok THEN field_body(a, ParseDirectives(toks, a.i)) ELSE a
    IN field_directives(ParseArguments(toks, IF aliased THEN i + 3 ELSE i + 1))
  ELSE Fail

RECURSIVE ParseType(_, _)
\* A type, kept as its Display: a name or a type in brackets, with "!"
\* appended when the type is non-null.
ParseType(toks, i) ==
  LET non_null(t) ==
        IF t.ok /\ IsPunct(toks, t.i, <<"!">>) THEN Ok(t.v \o <<"!">>, t.i + 1)
        ELSE t
      list(t) ==
        IF t.ok THEN Ok(<<"[">> \o t.v \o <<"]">>, t.i) ELSE t
  IN IF IsName(toks, i) THEN non_null(Ok(toks[i].v, i + 1))
     ELSE IF IsPunct(toks, i, <<"[">>)
     THEN non_null(Closed(toks, list(ParseType(toks, i + 1)), <<"]">>))
     ELSE Fail

RECURSIVE ParseVariableList(_, _)
\* many("$" name ":" type optional("=" default_value))
ParseVariableList(toks, i) ==
  IF IsPunct(toks, i, <<"$">>) THEN
    IF IsName(toks, i + 1) /\ IsPunct(toks, i + 2, <<":">>) THEN
      LET variable(t, default_value, j) ==
            Prepend(VariableDefinition(toks[i + 1].v, t.v, default_value),
                    ParseVariableList(toks, j))
          with_default(t, v) ==
            IF v.ok THEN variable(t, <<v.v>>, v.i) ELSE v
          typed(t) ==
            IF ~t.ok THEN t
            ELSE IF IsPunct(toks, t.i, <<"=">>)
            THEN with_default(t, ParseDefaultValue(toks, t.i + 1))
            ELSE variable(t, << >>, t.i)
      IN typed(ParseType(toks, i + 3))
    ELSE Fail
  ELSE Ok(<< >>, i)

OperationKind(word) ==
  CASE word = OperationTypeToString("Query") -> "Query"
    [] word = OperationTypeToString("Mutation") -> "Mutation"
    [] word = OperationTypeToString("Subscription") -> "Subscription"
    [] OTHER -> "None"

ParseQueryDefinition(toks, i) ==
  IF IsPunct(toks, i, <<"{">>) THEN
    LET bare(b) ==
          IF b.ok THEN Ok(Operation("SelectionSet", << >>, << >>, << >>, b.v), b.i)
          ELSE b
    IN bare(ParseSelectionSet(toks, i))
  ELSE IF IsIdent(toks, i, <<"f", "r", "a", "g", "m", "e", "n", "t">>) THEN
    IF IsName(toks, i + 1) /\ IsIdent(toks, i + 2, <<"o", "n">>)
       /\ IsName(toks, i + 3) THEN
      LET fragment(d, b) ==
            IF b.ok
            THEN Ok(FragmentDefinition(toks[i + 1].v, toks[i + 3].v, d.v, b.v), b.i)
            ELSE b
          fragment_body(d) ==
            IF d.ok THEN fragment(d, ParseSelectionSet(toks, d.i)) ELSE d
      IN fragment_body(ParseDirectives(toks, i + 4))
    ELSE Fail
  ELSE IF IsName(toks, i) /\ OperationKind(toks[i].v) # "None" THEN
    LET named == IsName(toks, i + 1)
        j == IF named THEN i + 2 ELSE i + 1
        operation(vs, d, b) ==
          IF b.ok
          THEN Ok(Operation(OperationKind(toks[i].v),
                            IF named THEN <<toks[i + 1].v>> ELSE << >>,
                            vs.v, d.v, b.v), b.i)
          ELSE b
        operation_body(vs, d) ==
          IF d.ok THEN operation(vs, d, ParseSelectionSet(toks, d.i)) ELSE d
        operation_directives(vs) ==
          IF vs.ok THEN operation_body(vs, ParseDirectives(toks, vs.i)) ELSE vs
    IN IF IsPunct(toks, j, <<"(">>)
       THEN operation_directives(
              Closed(toks, Many1(ParseVariableList(toks, j + 1)), <<")">>))
       ELSE operation_directives(Ok(<< >>, j))
  ELSE Fail

RECURSIVE ParseQueryDefinitions(_, _)
\* Definitions up to the end of the input.
ParseQueryDefinitions(toks, i) ==
  IF i > Len(toks) THEN Ok(<< >>, i)
  ELSE LET definition(d) ==
             IF d.ok THEN Prepend(d.v, ParseQueryDefinitions(toks, d.i)) ELSE d
       IN definition(ParseQueryDefinition(toks, i))

\* parse_query: many1(definition) up to the end of the input.
parse_query(contents) == Many1(Parse("query_document", Lex(contents, 1), 1, FALSE))

RECURSIVE query_format_doc(_, _)
\* format_doc: the loop over the definitions, to its end or to a panic.
query_format_doc(defs, s) ==
  IF defs = << >> \/ s.panic THEN s
  ELSE query_format_doc(Tail(defs), query_format_def(defs[1], s))

\* A call's outcome: "ok" with the returned text, "syntax" for the parser's
\* Err, "panic" when the call unwound or the process aborted.
Outcome(kind, text) == [kind |-> kind, text |-> text]

\* Ok(out.trim().to_string()), unless the call unwound before it.
Finish(s) ==
  IF s.panic THEN Outcome("panic", << >>) ELSE Outcome("ok", trim(s.buf))

\* query::format
query_format(contents, build) ==
  LET formatted(ast) ==
        IF ast.panic THEN Outcome("panic", << >>)
        ELSE IF ~ast.ok THEN Outcome("syntax", << >>)
        ELSE Finish(query_format_doc(ast.v, NewState(INDENT_SIZE, build)))
  IN formatted(parse_query(contents))

(***************************************************************************)
(* Inputs: the schema ASTs graphql_parser::parse_schema hands to format.   *)
(***************************************************************************)
SchemaBase(kind, type) ==
  [kind |-> kind, type |-> type, name |-> << >>, description |-> << >>,
   directives |-> << >>, implements_interfaces |-> << >>, fields |-> << >>,
   values |-> << >>, input_fields |-> << >>, types |-> << >>,
   query |-> << >>, mutation |-> << >>, subscription |-> << >>]

SchemaDefinition(query, mutation, subscription, directives) ==
  [SchemaBase("SchemaDefinition", "None") EXCEPT
     !.query = query, !.mutation = mutation, !.subscription = subscription,
     !.directives = directives]

TypeDefinition(type, name, description, directives) ==
  [SchemaBase("TypeDefinition", type) EXCEPT
     !.name = name, !.description = description, !.directives = directives]

ObjectType(name, description, interfaces, directives, fields) ==
  [TypeDefinition("Object", name, description, directives) EXCEPT
     !.implements_interfaces = interfaces, !.fields = fields]

InterfaceType(name, description, directives, fields) ==
  [TypeDefinition("Interface", name, description, directives) EXCEPT
     !.fields = fields]

EnumType(name, description, directives, values) ==
  [TypeDefinition("Enum", name, description, directives) EXCEPT
     !.values = values]

InputObjectType(name, description, directives, input_fields) ==
  [TypeDefinition("InputObject", name, description, directives) EXCEPT
     !.input_fields = input_fields]

UnionType(name, description, directives, types) ==
  [TypeDefinition("Union", name, description, directives) EXCEPT
     !.types = types]

ScalarType(name, description, directives) ==
  TypeDefinition("Scalar", name, description, directives)

SchemaField(name, description, arguments, field_type, directives) ==
  [name |-> name, description |-> description, arguments |-> arguments,
   field_type |-> field_type, directives |-> directives]

InputValue(name, description, value_type, directives) ==
  [name |-> name, description |-> description, value_type |-> value_type,
   directives |-> directives]

EnumValue(name, description, directives) ==
  [name |-> name, description |-> description, directives |-> directives]

(***************************************************************************)
(* parse_schema                                                            *)
(***************************************************************************)
\* optional(string): a description.
ParseDescription(toks, i) ==
  LET description(u) == IF u.ok THEN Ok(<<u.v>>, u.i) ELSE u
  IN IF i <= Len(toks) /\ toks[i].t \in {"string", "block"}
     THEN description(ParseString(toks, i))
     ELSE Ok(<< >>, i)

\* optional description, name ":" type, optional("=" default_value),
\* directives; the formatter reads no default value, none is kept.
ParseInputValue(toks, i) ==
  LET value(desc, t, d) ==
        IF d.ok THEN Ok(InputValue(toks[desc.i].v, desc.v, t.v, d.v), d.i)
        ELSE d
      with_default(desc, t, v) ==
        IF v.ok THEN value(desc, t, ParseDirectives(toks, v.i)) ELSE v
      typed(desc, t) ==
        IF ~t.ok THEN t
        ELSE IF IsPunct(toks, t.i, <<"=">>)
        THEN with_default(desc, t, ParseDefaultValue(toks, t.i + 1))
        ELSE value(desc, t, ParseDirectives(toks, t.i))
      named(desc) ==
        IF ~desc.ok THEN desc
        ELSE IF IsName(toks, desc.i) /\ IsPunct(toks, desc.i + 1, <<":">>)
        THEN typed(desc, ParseType(toks, desc.i + 2))
        ELSE Fail
  IN named(ParseDescription(toks, i))

RECURSIVE ParseInputValueList(_, _, _)
\* many(input_value) up to the closing punctuator.
ParseInputValueList(toks, i, close) ==
  IF i > Len(toks) \/ IsPunct(toks, i, close) THEN Ok(<< >>, i)
  ELSE LET value(v) ==
             IF v.ok THEN Prepend(v.v, ParseInputValueList(toks, v.i, close))
             ELSE v
       IN value(ParseInputValue(toks, i))

\* optional(open many1(input_value) close)
ParseInputValues(toks, i, open, close) ==
  IF IsPunct(toks, i, open)
  THEN Closed(toks, Many1(ParseInputValueList(toks, i + 1, close)), close)
  ELSE Ok(<< >>, i)

\* optional description, name, arguments, ":" type, directives
ParseSchemaField(toks, i) ==
  LET field(desc, a, t, d) ==
        IF d.ok THEN Ok(SchemaField(toks[desc.i].v, desc.v, a.v, t.v, d.v), d.i)
        ELSE d
      typed(desc, a, t) ==
        IF t.ok THEN field(desc, a, t, ParseDirectives(toks, t.i)) ELSE t
      with_arguments(desc, a) ==
        IF ~a.ok THEN a
        ELSE IF IsPunct(toks, a.i, <<":">>)
        THEN typed(desc, a, ParseType(toks, a.i + 1))
        ELSE Fail
      named(desc) ==
        IF ~desc.ok THEN desc
        ELSE IF IsName(toks, desc.i)
        THEN with_arguments(desc,
                            ParseInputValues(toks, desc.i + 1, <<"(">>, <<")">>))
        ELSE Fail
  IN named(ParseDescription(toks, i))

RECURSIVE ParseSchemaFieldList(_, _)
ParseSchemaFieldList(toks, i) ==
  IF i > Len(toks) \/ IsPunct(toks, i, <<"}">>) THEN Ok(<< >>, i)
  ELSE LET field(f) ==
             IF f.ok THEN Prepend(f.v, ParseSchemaFieldList(toks, f.i)) ELSE f
       IN field(ParseSchemaField(toks, i))

\* optional("{" many1(field) "}")
ParseSchemaFields(toks, i) ==
  IF IsPunct(toks, i, <<"{">>)
  THEN Closed(toks, Many1(ParseSchemaFieldList(toks, i + 1)), <<"}">>)
  ELSE Ok(<< >>, i)

RECURSIVE ParseEnumValueList(_, _)
ParseEnumValueList(toks, i) ==
  IF i > Len(toks) \/ IsPunct(toks, i, <<"}">>) THEN Ok(<< >>, i)
  ELSE LET value(desc, d) ==
             IF d.ok
             THEN Prepend(EnumValue(toks[desc.i].v, desc.v, d.v),
                          ParseEnumValueList(toks, d.i))
             ELSE d
           named(desc) ==
             IF ~desc.ok THEN desc
             ELSE IF IsName(toks, desc.i)
             THEN value(desc, ParseDirectives(toks, desc.i + 1))
             ELSE Fail
       IN named(ParseDescription(toks, i))

\* optional("{" many1(enum_value) "}")
ParseEnumValues(toks, i) ==
  IF IsPunct(toks, i, <<"{">>)
  THEN Closed(toks, Many1(ParseEnumValueList(toks, i + 1)), <<"}">>)
  ELSE Ok(<< >>, i)

RECURSIVE ParseNamesSeparatedBy(_, _, _)
\* sep_by1(name, sep)
ParseNamesSeparatedBy(toks, i, sep) ==
  IF IsName(toks, i) THEN
    IF IsPunct(toks, i + 1, sep)
    THEN Prepend(toks[i].v, ParseNamesSeparatedBy(toks, i + 2, sep))
    ELSE Ok(<<toks[i].v>>, i + 1)
  ELSE Fail

\* optional(lead optional(sep) sep_by1(name, sep)), lead a punctuator or an
\* identifier
ParseNameList(toks, i, lead, sep) ==
  IF IsPunct(toks, i, lead) \/ IsIdent(toks, i, lead) THEN
    ParseNamesSeparatedBy(toks, IF IsPunct(toks, i + 1, sep) THEN i + 2
                                ELSE i + 1, sep)
  ELSE Ok(<< >>, i)

RootKeywords ==
  { <<"q", "u", "e", "r", "y">>, <<"m", "u", "t", "a", "t", "i", "o", "n">>,
    <<"s", "u", "b", "s", "c", "r", "i", "p", "t", "i", "o", "n">> }

RECURSIVE ParseRootLines(_, _, _)
\* many(operation ":" name); a root type declared twice is an error.
ParseRootLines(toks, i, def) ==
  IF IsName(toks, i) /\ toks[i].v \in RootKeywords THEN
    IF IsPunct(toks, i + 1, <<":">>) /\ IsName(toks, i + 2) THEN
      LET kind == OperationKind(toks[i].v)
          root == <<toks[i + 2].v>>
      IN CASE kind = "Query" ->
                IF def.query # << >> THEN Fail
                ELSE ParseRootLines(toks, i + 3, [def EXCEPT !.query = root])
           [] kind = "Mutation" ->
                IF def.mutation # << >> THEN Fail
                ELSE ParseRootLines(toks, i + 3, [def EXCEPT !.mutation = root])
           [] kind = "Subscription" ->
                IF def.subscription # << >> THEN Fail
                ELSE ParseRootLines(toks, i + 3,
                                    [def EXCEPT !.subscription = root])
    ELSE Fail
  ELSE Ok(def, i)

TypeKeyword(type) ==
  CASE type = "Object" -> <<"t", "y", "p", "e">>
    [] type = "Enum" -> <<"e", "n", "u", "m">>
    [] type = "Scalar" -> <<"s", "c", "a", "l", "a", "r">>
    [] type = "Interface" -> <<"i", "n", "t", "e", "r", "f", "a", "c", "e">>
    [] type = "InputObject" -> <<"i", "n", "p", "u", "t">>
    [] type = "Union" -> <<"u", "n", "i", "o", "n">>

TypeKinds == {"Object", "Enum", "Scalar", "Interface", "InputObject", "Union"}

\* The kind of type definition the keyword at token k opens, "None" when it
\* opens none.
ParseTypeKind(toks, k) ==
  IF IsName(toks, k) /\ IsName(toks, k + 1)
     /\ \E t \in TypeKinds : TypeKeyword(t) = toks[k].v
  THEN CHOOSE t \in TypeKinds : TypeKeyword(t) = toks[k].v
  ELSE "None"

\* The type definition of kind `type` whose name is the token at k, `desc`
\* its parsed description.
ParseTypeDefinition(toks, k, type, desc) ==
  LET name == toks[k].v
      object(impl, d, f) ==
        IF f.ok THEN Ok(ObjectType(name, desc, impl.v, d.v, f.v), f.i) ELSE f
      interface(d, f) ==
        IF f.ok THEN Ok(InterfaceType(name, desc, d.v, f.v), f.i) ELSE f
      enum(d, v) ==
        IF v.ok THEN Ok(EnumType(name, desc, d.v, v.v), v.i) ELSE v
      input(d, v) ==
        IF v.ok THEN Ok(InputObjectType(name, desc, d.v, v.v), v.i) ELSE v
      union(d, m) ==
        IF m.ok THEN Ok(UnionType(name, desc, d.v, m.v), m.i) ELSE m
      members(impl, d) ==
        IF ~d.ok THEN d
        ELSE CASE type = "Object" -> object(impl, d, ParseSchemaFields(toks, d.i))
               [] type = "Interface" -> interface(d, ParseSchemaFields(toks, d.i))
               [] type = "Enum" -> enum(d, ParseEnumValues(toks, d.i))
               [] type = "Scalar" -> Ok(ScalarType(name, desc, d.v), d.i)
               [] type = "InputObject" ->
                    input(d, ParseInputValues(toks, d.i, <<"{">>, <<"}">>))
               [] type = "Union" ->
                    union(d, ParseNameList(toks, d.i, <<"=">>, <<"|">>))
      directives(impl) ==
        IF impl.ok THEN members(impl, ParseDirectives(toks, impl.i)) ELSE impl
  IN IF type = "Object"
     THEN directives(ParseNameList(toks, k + 1,
                       <<"i", "m", "p", "l", "e", "m", "e", "n", "t", "s">>,
                       <<"&">>))
     ELSE directives(Ok(<< >>, k + 1))

\* "extend" and a type definition without description that holds a
\* directive or a member.
ParseTypeExtension(toks, i) ==
  LET extension(def) ==
        IF ~def.ok THEN def
        ELSE IF /\ def.v.directives = << >>
                /\ def.v.implements_interfaces = << >>
                /\ def.v.fields = << >>
                /\ def.v.values = << >>
                /\ def.v.input_fields = << >>
                /\ def.v.types = << >>
        THEN Fail
        ELSE Ok(SchemaBase("TypeExtension", "None"), def.i)
      type == ParseTypeKind(toks, i + 1)
  IN IF type = "None" THEN Fail
     ELSE extension(ParseTypeDefinition(toks, i + 2, type, << >>))

DirectiveLocations ==
  { <<"Q", "U", "E", "R", "Y">>,
    <<"M", "U", "T", "A", "T", "I", "O", "N">>,
    <<"S", "U", "B", "S", "C", "R", "I", "P", "T", "I", "O", "N">>,
    <<"F", "I", "E", "L", "D">>,
    <<"F", "R", "A", "G", "M", "E", "N", "T", "_", "D", "E", "F", "I", "N", "I", "T", "I", "O", "N">>,
    <<"F", "R", "A", "G", "M", "E", "N", "T", "_", "S", "P", "R", "E", "A", "D">>,
    <<"I", "N", "L", "I", "N", "E", "_", "F", "R", "A", "G", "M", "E", "N", "T">>,
    <<"S", "C", "H", "E", "M", "A">>,
    <<"S", "C", "A", "L", "A", "R">>,
    <<"O", "B", "J", "E", "C", "T">>,
    <<"F", "I", "E", "L", "D", "_", "D", "E", "F", "I", "N", "I", "T", "I", "O", "N">>,
    <<"A", "R", "G", "U", "M", "E", "N", "T", "_", "D", "E", "F", "I", "N", "I", "T", "I", "O", "N">>,
    <<"I", "N", "T", "E", "R", "F", "A", "C", "E">>,
    <<"U", "N", "I", "O", "N">>,
    <<"E", "N", "U", "M">>,
    <<"E", "N", "U", "M", "_", "V", "A", "L", "U", "E">>,
    <<"I", "N", "P", "U", "T", "_", "O", "B", "J", "E", "C", "T">>,
    <<"I", "N", "P", "U", "T", "_", "F", "I", "E", "L", "D", "_", "D", "E", "F", "I", "N", "I", "T", "I", "O", "N">> }

RECURSIVE ParseLocationsSeparated(_, _)
\* sep_by1(directive location, "|")
ParseLocationsSeparated(toks, i) ==
  IF IsName(toks, i) /\ toks[i].v \in DirectiveLocations THEN
    IF IsPunct(toks, i + 1, <<"|">>) THEN ParseLocationsSeparated(toks, i + 2)
    ELSE Ok(<< >>, i + 1)
  ELSE Fail

\* "directive" "@" name, arguments, "on" and the locations.
ParseDirectiveDefinition(toks, i) ==
  LET locations(l) ==
        IF l.ok THEN Ok(SchemaBase("DirectiveDefinition", "None"), l.i) ELSE l
      on(a) ==
        IF ~a.ok THEN a
        ELSE IF ~IsIdent(toks, a.i, <<"o", "n">>) THEN Fail
        ELSE IF IsPunct(toks, a.i + 1, <<"|">>)
        THEN locations(ParseLocationsSeparated(toks, a.i + 2))
        ELSE IF IsName(toks, a.i + 1)
        THEN locations(ParseLocationsSeparated(toks, a.i + 1))
        ELSE locations(Ok(<< >>, a.i + 1))
  IN IF IsPunct(toks, i + 1, <<"@">>) /\ IsName(toks, i + 2)
     THEN on(ParseInputValues(toks, i + 3, <<"(">>, <<")">>))
     ELSE Fail

\* A schema block, a (described) type definition, a type extension or a
\* directive definition.
ParseSchemaDefinition(toks, i) ==
  IF IsIdent(toks, i, <<"s", "c", "h", "e", "m", "a">>) THEN
    LET block(d) ==
          IF ~d.ok THEN d
          ELSE IF IsPunct(toks, d.i, <<"{">>)
          THEN Closed(toks,
                      ParseRootLines(toks, d.i + 1,
                                     SchemaDefinition(<< >>, << >>, << >>, d.v)),
                      <<"}">>)
          ELSE Fail
    IN block(ParseDirectives(toks, i + 1))
  ELSE IF IsIdent(toks, i, <<"e", "x", "t", "e", "n", "d">>)
  THEN ParseTypeExtension(toks, i)
  ELSE IF IsIdent(toks, i, <<"d", "i", "r", "e", "c", "t", "i", "v", "e">>)
  THEN ParseDirectiveDefinition(toks, i)
  ELSE
    LET described(desc) ==
          IF ~desc.ok THEN desc
          ELSE IF ParseTypeKind(toks, desc.i) = "None" THEN Fail
          ELSE ParseTypeDefinition(toks, desc.i + 1,
                                   ParseTypeKind(toks, desc.i), desc.v)
    IN described(ParseDescription(toks, i))

RECURSIVE ParseSchemaDefinitions(_, _)
\* Definitions up to the end of the input.
ParseSchemaDefinitions(toks, i) ==
  IF i > Len(toks) THEN Ok(<< >>, i)
  ELSE LET definition(d) ==
             IF d.ok THEN Prepend(d.v, ParseSchemaDefinitions(toks, d.i)) ELSE d
       IN definition(ParseSchemaDefinition(toks, i))

\* The rule `rule` at token i; `variables` tells a value whether it may hold
\* a variable.
Parse(rule, toks, i, variables) ==
  CASE rule = "string" -> StringRule(toks, i)
    [] rule = "value" -> ValueRule(toks, i, variables)
    [] rule = "directives" -> DirectivesRule(toks, i)
    [] rule = "selection_set" -> SelectionSetRule(toks, i)
    [] rule = "query_document" -> ParseQueryDefinitions(toks, i)
    [] rule = "schema_document" -> ParseSchemaDefinitions(toks, i)

\* parse_schema: many1(definition) up to the end of the input.
parse_schema(contents) == Many1(Parse("schema_document", Lex(contents, 1), 1, FALSE))

RECURSIVE schema_format_doc(_, _)
\* The loop of schema::format over the definitions, to its end or a panic.
schema_format_doc(defs, s) ==
  IF defs = << >> \/ s.panic THEN s
  ELSE schema_format_doc(Tail(defs), schema_format_def(defs[1], s))

\* schema::format
schema_format(contents, build) ==
  LET formatted(ast) ==
        IF ast.panic THEN Outcome("panic", << >>)
        ELSE IF ~ast.ok THEN Outcome("syntax", << >>)
        ELSE Finish(schema_format_doc(ast.v, NewState(INDENT_SIZE, build)))
  IN formatted(parse_schema(contents))

(***************************************************************************)
(* The explored schema documents                                           *)
(***************************************************************************)
IntType == <<"I", "n", "t">>

ADescription == << <<"d", "o", "c">> >>

OneField == <<SchemaField(<<"a">>, << >>, << >>, IntType, << >>)>>

\* Every kind of top-level definition, with one member where it has any.
SchemaTopDefs ==
  { SchemaDefinition(<< <<"Q">> >>, << >>, << >>, << >>),
    SchemaDefinition(<< <<"Q">> >>, << <<"M">> >>, << <<"S">> >>, << >>),
    SchemaDefinition(<< <<"Q">> >>, << >>, << >>, ADirective),
    ObjectType(<<"A">>, << >>, << >>, << >>, OneField),
    ObjectType(<<"A">>, ADescription, << >>, << >>, OneField),
    ObjectType(<<"A">>, << >>, << >>, ADirective, OneField),
    EnumType(<<"E">>, << >>, << >>, <<EnumValue(<<"A">>, << >>, << >>)>>),
    ScalarType(<<"S">>, << >>, << >>),
    InterfaceType(<<"I">>, << >>, << >>, OneField),
    InputObjectType(<<"I">>, << >>, << >>,
                    <<InputValue(<<"a">>, << >>, IntType, << >>)>>),
    UnionType(<<"U">>, << >>, << >>, << <<"A">>, <<"B">> >>),
    SchemaBase("TypeExtension", "None"),
    SchemaBase("DirectiveDefinition", "None") }

FieldPool ==
  { SchemaField(<<"a">>, << >>, << >>, IntType, << >>),
    SchemaField(<<"b">>, << >>, << >>, IntType, << >>),
    SchemaField(<<"a">>, ADescription, << >>, IntType, << >>),
    SchemaField(<<"c">>, << >>, <<InputValue(<<"a">>, << >>, IntType, << >>)>>,
                IntType, << >>),
    SchemaField(<<"a">>, << >>, << >>, IntType, ADirective) }

\* Objects and interfaces over every field block of at most MaxMembers
\* fields.
SchemaFieldDefs ==
  UNION { { ObjectType(<<"A">>, << >>, << >>, << >>, fields),
            InterfaceType(<<"I">>, << >>, << >>, fields) } :
          fields \in SeqsUpTo(FieldPool, MaxMembers) }

InputValuePool ==
  { InputValue(<<"a">>, << >>, IntType, << >>),
    InputValue(<<"b">>, << >>, IntType, << >>),
    InputValue(<<"a">>, ADescription, IntType, << >>),
    InputValue(<<"b">>, << <<"e">> >>, IntType, << >>),
    InputValue(<<"c">>, << >>, IntType, ADirective) }

SchemaInputDefs ==
  { InputObjectType(<<"I">>, << >>, << >>, values) :
    values \in SeqsUpTo(InputValuePool, MaxMembers) }

EnumValuePool ==
  { EnumValue(<<"A">>, << >>, << >>), EnumValue(<<"B">>, << >>, << >>),
    EnumValue(<<"C">>, << >>, ADirective) }

SchemaEnumDefs ==
  { EnumType(<<"E">>, << >>, << >>, values) :
    values \in SeqsUpTo(EnumValuePool, MaxMembers) }

TypeNames == { <<"A">>, <<"B">>, <<"C">> }

SchemaNameListDefs ==
  UNION { { UnionType(<<"U">>, << >>, << >>, names),
            ObjectType(<<"A">>, << >>, names, << >>, OneField) } :
          names \in SeqsUpTo(TypeNames, MaxMembers) }

\* Field arguments: every name with a short type and with the two types
\* that put "  f(a: Type)" at MAX_LINE_LENGTH and one past it; a described
\* one and one with a directive.
SchemaArgPool ==
  { InputValue(n, << >>, t, << >>) :
      n \in ArgNames, t \in {IntType, Long(MAX_LINE_LENGTH - 8),
                             Long(MAX_LINE_LENGTH - 7)} }
  \cup { InputValue(n, ADescription, IntType, << >>) : n \in ArgNames }
  \cup { InputValue(<<"a">>, << >>, IntType, ADirective) }

SchemaArgumentDefs ==
  { ObjectType(<<"A">>, << >>, << >>, << >>,
               <<SchemaField(<<"f">>, << >>, args, IntType, << >>)>>) :
    args \in SeqsUpTo(SchemaArgPool, MaxArgs) }

\* Definitions without a block of members: "type A", "enum E", ...
SchemaEmptyDefs ==
  { ObjectType(<<"A">>, << >>, << >>, << >>, << >>),
    InterfaceType(<<"I">>, << >>, << >>, << >>),
    EnumType(<<"E">>, << >>, << >>, << >>),
    InputObjectType(<<"I">>, << >>, << >>, << >>),
    UnionType(<<"U">>, << >>, << >>, << >>) }

\* Schema blocks over every subset of the three root operation types.
SchemaRootDefs ==
  { SchemaDefinition(q, m, sub, << >>) :
      q \in {<< >>, << <<"Q">> >>}, m \in {<< >>, << <<"M">> >>},
      sub \in {<< >>, << <<"S">> >>} }

\* A field and an argument of list types, and a scalar under the
\* description a block string gives.
SchemaValueDefs ==
  { ObjectType(<<"A">>, << >>, << >>, << >>,
      <<SchemaField(<<"f">>, << >>,
          <<InputValue(<<"a">>, << >>, <<"[", "I", "n", "t", "!", "]">>, << >>)>>,
          <<"[", "A", "]", "!">>, << >>)>>),
    ScalarType(<<"S">>, << <<"d", "o", "c", "\n">> >>, << >>) }

SchemaDefs ==
  SchemaTopDefs \cup SchemaFieldDefs \cup SchemaInputDefs \cup SchemaEnumDefs
    \cup SchemaNameListDefs \cup SchemaArgumentDefs \cup SchemaEmptyDefs
  \cup SchemaRootDefs \cup SchemaValueDefs

(***************************************************************************)
(* The state machine: one call of format, a definition at a time, and then *)
(* a second call on the string the first one returned.                     *)
(***************************************************************************)
VARIABLES
  entry,   \* "query" (query::format) or "schema" (schema::format)
  doc,     \* the definitions of the parsed document traversed so far
  st,      \* the Output buffer and the Indentation of the call
  pc,      \* "run", "done" (Ok returned), "panic" (the call unwound)
  result,  \* None, or Some(the returned string)
  again    \* None, or Some(the outcome of formatting the returned string)

vars == <<entry, doc, st, pc, result, again>>

RECURSIVE SelectionSets(_)
\* Every non-empty selection set of the tree under `set`, itself included.
SelectionSets(set) ==
  IF set = << >> THEN {}
  ELSE {set} \cup UNION {SelectionSets(set[i].selection_set) : i \in 1..Len(set)}

\* The key sequences the formatters sort in `def` whose order the source
\* does not determine: those of more than MAX_INSERTION elements that hold
\* a key twice.
LongKeys(def) ==
  LET keys == IF "selection_set" \in DOMAIN def
              THEN {SelectionKeys(set) : set \in SelectionSets(def.selection_set)}
              ELSE {NameKeys(def.fields), NameKeys(def.values),
                    NameKeys(def.input_fields)}
  IN {k \in keys : Len(k) > MAX_INSERTION /\ Tied(k) # {}}

\* The rankings of the build once it has sorted the key sequences K as
\* well: those it has sorted before keep their ranking, each of the others
\* takes one of its orders.
ExtendTies(tie, K) ==
  IF K \subseteq DOMAIN tie THEN {tie}
  ELSE {g \in [DOMAIN tie \cup K -> UNION {TieOrders(k) : k \in DOMAIN tie \cup K}] :
          /\ \A k \in DOMAIN tie : g[k] = tie[k]
          /\ \A k \in K \ DOMAIN tie : g[k] \in TieOrders(k)}

\* The key sequences of LongKeys in the document `contents` parses to.
ParsedLongKeys(e, contents) ==
  LET keys(ast) ==
        IF ast.ok THEN UNION {LongKeys(ast.v[i]) : i \in 1..Len(ast.v)} ELSE {}
  IN keys(IF e = "query" THEN parse_query(contents) ELSE parse_schema(contents))

WithTie(s, tie) == [s EXCEPT !.build = Build(s.build.overflow_checks, tie)]

Init ==
  /\ entry \in {"query", "schema"}
  /\ doc = << >>
  /\ \E overflow_checks \in BOOLEAN :
       st = NewState(INDENT_SIZE, Build(overflow_checks, << >>))
  /\ pc = "run"
  /\ result = << >>
  /\ again = << >>

\* The definitions that may follow `d`: any definition may stand alone,
\* documents of several definitions are made of the top definitions.
NextDefs(d, top, all) ==
  IF d = << >> THEN all
  ELSE IF Len(d) < MaxDefs /\ \A i \in 1..Len(d) : d[i] \in top THEN top
  ELSE {}

\* One iteration of the loop over the definitions.
Step(def, s) ==
  /\ doc' = Append(doc, def)
  /\ st' = s
  /\ pc' = IF s.panic THEN "panic" ELSE "run"
  /\ UNCHANGED <<entry, result, again>>

QueryFormatOperation ==
  /\ entry = "query" /\ pc = "run"
  /\ \E def \in NextDefs(doc, QueryTopDefs, QueryDefs) :
       /\ def.kind # "Fragment"
       /\ \E tie \in ExtendTies(st.build.tie, LongKeys(def)) :
            Step(def, query_format_def(def, WithTie(st, tie)))

QueryFormatFragment ==
  /\ entry = "query" /\ pc = "run"
  /\ \E def \in NextDefs(doc, QueryTopDefs, QueryDefs) :
       /\ def.kind = "Fragment"
       /\ \E tie \in ExtendTies(st.build.tie, LongKeys(def)) :
            Step(def, query_format_def(def, WithTie(st, tie)))

SchemaFormatSchemaDefinition ==
  /\ entry = "schema" /\ pc = "run"
  /\ \E def \in NextDefs(doc, SchemaTopDefs, SchemaDefs) :
       /\ def.kind = "SchemaDefinition"
       /\ Step(def, schema_format_def(def, st))

SchemaFormatType ==
  /\ entry = "schema" /\ pc = "run"
  /\ \E def \in NextDefs(doc, SchemaTopDefs, SchemaDefs) :
       /\ def.kind = "TypeDefinition"
       /\ \E tie \in ExtendTies(st.build.tie, LongKeys(def)) :
            Step(def, schema_format_def(def, WithTie(st, tie)))

SchemaTypeExtension ==
  /\ entry = "schema" /\ pc = "run"
  /\ \E def \in NextDefs(doc, SchemaTopDefs, SchemaDefs) :
       /\ def.kind = "TypeExtension"
       /\ Step(def, schema_format_def(def, st))

SchemaDirectiveDefinition ==
  /\ entry = "schema" /\ pc = "run"
  /\ \E def \in NextDefs(doc, SchemaTopDefs, SchemaDefs) :
       /\ def.kind = "DirectiveDefinition"
       /\ Step(def, schema_format_def(def, st))

\* Ok(out.trim().to_string()), once the loop is over.
Return ==
  /\ pc = "run" /\ doc # << >>
  /\ result' = << trim(st.buf) >>
  /\ pc' = "done"
  /\ UNCHANGED <<entry, doc, st, again>>

Format(e, contents, build) ==
  IF e = "query" THEN query_format(contents, build)
  ELSE schema_format(contents, build)

\* The caller formats the returned string once more, in the same build.
FormatAgain ==
  /\ pc = "done" /\ again = << >>
  /\ \E tie \in ExtendTies(st.build.tie, ParsedLongKeys(entry, result[1])) :
       again' = << Format(entry, result[1],
                          Build(st.build.overflow_checks, tie)) >>
  /\ UNCHANGED <<entry, doc, st, pc, result>>

Next ==
  \/ QueryFormatOperation
  \/ QueryFormatFragment
  \/ SchemaFormatSchemaDefinition
  \/ SchemaFormatType
  \/ SchemaTypeExtension
  \/ SchemaDirectiveDefinition
  \/ Return
  \/ FormatAgain

Spec == Init /\ [][Next]_vars

(***************************************************************************)
(* The Output buffer on its own: strings are appended to an empty buffer,  *)
(* with and without indentation, and the current line is then asked for.   *)
(* Here `doc` holds the strings appended so far, `result` the answer of    *)
(* current_line and `again` that of current_line_length.                   *)
(***************************************************************************)
\* The strings appended: with and without a newline, at the end and inside;
\* a description that holds a carriage return and a newline, as push_desc
\* appends it; a line ended by a carriage return and a newline.
Pieces ==
  { <<"a">>, <<"\n">>, <<"b", "\n">>, <<"a", "\n", "b">>,
    <<"\"", "\r", "\n", "b", "\"", "\n">>, <<"a", "\r", "\n">> }

OutputInit ==
  /\ entry = "output"
  /\ doc = << >>
  /\ \E overflow_checks \in BOOLEAN :
       st = NewState(INDENT_SIZE, Build(overflow_checks, << >>))
  /\ pc = "run"
  /\ result = << >>
  /\ again = << >>

\* A call on the buffer or the counter: the process ends where the call
\* panics or aborts.
OutputCall(s) ==
  /\ st' = s
  /\ pc' = IF s.panic THEN "panic" ELSE "run"
  /\ UNCHANGED <<entry, result, again>>

OutputPush ==
  /\ pc = "run" /\ Len(doc) < MaxAppends
  /\ \E s \in Pieces :
       /\ OutputCall(push(st, s))
       /\ doc' = Append(doc, s)

OutputPushStr ==
  /\ pc = "run" /\ Len(doc) < MaxAppends
  /\ \E s \in Pieces :
       /\ OutputCall(push_str(st, s))
       /\ doc' = Append(doc, s)

OutputIncrement ==
  /\ pc = "run" /\ st.count < 1
  /\ OutputCall(increment(st))
  /\ UNCHANGED doc

\* The counter is a usize: a decrement at 0 panics in a build that checks
\* overflow and wraps in one that does not.
OutputDecrement ==
  /\ pc = "run" /\ st.count >= 0
  /\ OutputCall(decrement(st))
  /\ UNCHANGED doc

OutputCurrentLine ==
  /\ pc = "run"
  /\ result' = << current_line(st.buf) >>
  /\ again' = << current_line_length(st) >>
  /\ pc' = "done"
  /\ UNCHANGED <<entry, doc, st>>

OutputNext ==
  \/ OutputPush
  \/ OutputPushStr
  \/ OutputIncrement
  \/ OutputDecrement
  \/ OutputCurrentLine

OutputSpec == OutputInit /\ [][OutputNext]_vars

(***************************************************************************)
(* Properties                                                              *)
(***************************************************************************)
Returned == pc = "done"

\* The selections of every selection set of the tree under `set`.
Selections(set) == UNION {{s[i] : i \in 1..Len(s)} : s \in SelectionSets(set)}

DocSelectionSets(defs) ==
  UNION {SelectionSets(defs[i].selection_set) : i \in 1..Len(defs)}

DocSelections(defs) ==
  UNION {Selections(defs[i].selection_set) : i \in 1..Len(defs)}

\* C1: formatting is idempotent for both entry points: formatting the
\* string a call returned gives that string again.
Idempotent ==
  again # << >> => again[1] = Outcome("ok", result[1])

\* The tier and the name of the ordering key as the specification words it.
TierOf(sel) ==
  IF sel.kind = "Field" THEN (IF sel.selection_set = << >> THEN 1 ELSE 2)
  ELSE IF sel.kind = "FragmentSpread" THEN 3
  ELSE IF sel.type_condition # << >> THEN 4
  ELSE 5

TierName(sel) ==
  IF sel.kind = "InlineFragment"
  THEN (IF sel.type_condition # << >> THEN sel.type_condition[1] ELSE << >>)
  ELSE sel.name

InTierOrder(set) ==
  \A i, j \in 1..Len(set) :
    i < j => \/ TierOf(set[i]) < TierOf(set[j])
             \/ /\ TierOf(set[i]) = TierOf(set[j])
                /\ TierOf(set[i]) = 5 \/ StrLeq(TierName(set[i]), TierName(set[j]))

\* C2: in the text format_query returns, every selection set, at any depth
\* and under operations, fragments and inline fragments alike, lists its
\* selections in ascending order of (tier, name): no higher tier before a
\* lower one, names non-decreasing within tiers 1-4.
SelectionsInTierOrder ==
  (entry = "query" /\ Returned) =>
    LET ast == parse_query(result[1])
    IN /\ ast.ok
       /\ Len(ast.v) = Len(doc)
       /\ \A set \in DocSelectionSets(ast.v) : InTierOrder(set)

\* A query was returned whose input held a selection set out of tier
\* order, nested below another selection.
SelectionsInTierOrderWitness ==
  /\ entry = "query" /\ Returned
  /\ \E set \in DocSelectionSets(doc) :
       /\ ~InTierOrder(set)
       /\ \E i \in 1..Len(set) :
            \E inner \in SelectionSets(set[i].selection_set) : ~InTierOrder(inner)

DistinctNames(arguments) ==
  \A i, j \in 1..Len(arguments) : i # j => arguments[i][1] # arguments[j][1]

\* C3: in the text format_query returns, the arguments of every field
\* whose argument names are pairwise distinct stand in ascending order of
\* the argument names, whatever the values.
ArgumentsInNameOrder ==
  (entry = "query" /\ Returned) =>
    LET ast == parse_query(result[1])
    IN /\ ast.ok
       /\ \A f \in DocSelections(ast.v) :
            DistinctNames(f.arguments) =>
              \A i, j \in 1..Len(f.arguments) :
                i < j => StrLess(f.arguments[i][1], f.arguments[j][1])

\* A directive on the definition itself or on any selection below it.
QueryDefHasDirective(def) ==
  \/ def.directives # << >>
  \/ \E sel \in Selections(def.selection_set) : sel.directives # << >>

\* C4: a query document with a directive on an operation, a fragment
\* definition, a field, a fragment spread or an inline fragment is never
\* formatted: the call that traverses it never returns a string.
QueryDirectiveAborts ==
  (entry = "query" /\ \E i \in 1..Len(doc) : QueryDefHasDirective(doc[i])) =>
    ~Returned /\ result = << >>

SchemaMembers(def) ==
  {def.fields[i] : i \in 1..Len(def.fields)}
    \cup {def.values[i] : i \in 1..Len(def.values)}
    \cup {def.input_fields[i] : i \in 1..Len(def.input_fields)}
    \cup UNION {{def.fields[i].arguments[k] :
                   k \in 1..Len(def.fields[i].arguments)} :
                i \in 1..Len(def.fields)}

\* A directive on the schema block or type itself, on a field, a field
\* argument, an enum value or an input value.
SchemaDefHasDirective(def) ==
  \/ def.directives # << >>
  \/ \E m \in SchemaMembers(def) : m.directives # << >>

\* C5: a schema document with a directive on a schema block, a type, a
\* field, a field argument, an enum value or an input value is never
\* formatted: the call that traverses it never returns a string.
SchemaDirectiveAborts ==
  (entry = "schema" /\ \E i \in 1..Len(doc) : SchemaDefHasDirective(doc[i])) =>
    ~Returned /\ result = << >>

Described(values) == {i \in 1..Len(values) : values[i].description # << >>}

\* An input object with described and undescribed input values.
IsMixedBlock(def) ==
  /\ def.kind = "TypeDefinition" /\ def.type = "InputObject"
  /\ Described(def.input_fields) # {}
  /\ Described(def.input_fields) # 1..Len(def.input_fields)

\* C6, as claimed: a schema document with an input-object block in which
\* some input values carry a description and others do not is rejected, no
\* string is returned for it.
MixedBlockRejected ==
  (entry = "schema" /\ \E i \in 1..Len(doc) : IsMixedBlock(doc[i])) =>
    ~Returned /\ result = << >>

NameAndDescription(values) ==
  [i \in 1..Len(values) |-> <<values[i].name, values[i].description>>]

Count(seq, x) == Cardinality({i \in 1..Len(seq) : seq[i] = x})

IsPermutation(s, t) ==
  /\ Len(s) = Len(t)
  /\ \A i \in 1..Len(s) : Count(s, s[i]) = Count(t, s[i])

\* C6, amended: a mixed input-object block is accepted: the call does not
\* panic, and the string it returns holds every input value of the block,
\* with its description when it has one, in non-decreasing order of name.
MixedBlockFormatted ==
  (entry = "schema" /\ doc # << >> /\ IsMixedBlock(doc[Len(doc)])) =>
    /\ pc # "panic"
    /\ Returned =>
         LET ast == parse_schema(result[1])
             printed == ast.v[Len(doc)].input_fields
         IN /\ ast.ok /\ Len(ast.v) = Len(doc)
            /\ IsPermutation(NameAndDescription(printed),
                             NameAndDescription(doc[Len(doc)].input_fields))
            /\ \A i, j \in 1..Len(printed) :
                 i < j => StrLeq(printed[i].name, printed[j].name)

\* A string was returned for a mixed block of three input values.
MixedBlockFormattedWitness ==
  /\ entry = "schema" /\ Returned
  /\ IsMixedBlock(doc[Len(doc)])
  /\ Len(doc[Len(doc)].input_fields) >= 3

\* C7: formatting is all-or-nothing.  A call that panicked returned
\* nothing, whatever it had written to its buffer; a type extension or a
\* directive definition, at any position, is the last definition the call
\* traverses and leaves it panicked; a string is returned only by a call
\* that traversed its definitions without a panic, and it is the trimmed
\* buffer.
AllOrNothing ==
  /\ pc = "panic" => result = << >> /\ again = << >>
  /\ st.panic <=> pc = "panic"
  /\ \A i \in 1..Len(doc) :
       (entry = "schema"
        /\ doc[i].kind \in {"TypeExtension", "DirectiveDefinition"}) =>
         pc = "panic" /\ i = Len(doc)
  /\ result # << >> => Returned /\ ~st.panic /\ result[1] = trim(st.buf)

\* A schema call panicked on a type extension after it had rendered the
\* definition before it.
AllOrNothingWitness ==
  /\ entry = "schema" /\ pc = "panic"
  /\ Len(doc) = 2 /\ doc[2].kind = "TypeExtension"
  /\ st.buf # << >> /\ result = << >>

Indent(depth) == [i \in 1..(depth * 2) |-> " "]

RECURSIVE ArgumentLines(_, _)
\* Every argument on a line of its own at `depth`, followed by ",".
ArgumentLines(args, depth) ==
  IF args = << >> THEN << >>
  ELSE Indent(depth) \o args[1] \o <<",", "\n">> \o ArgumentLines(Tail(args), depth)

\* L: the line up to and including the opening parenthesis.
LineToParen(depth, head) == Len(Indent(depth)) + Len(head) + 1

\* A: the arguments joined by ", " and the closing parenthesis.
JoinedLength(args) == Len(join(args, <<",", " ">>)) + 1

\* A field at `depth` with its argument list as the wrap rule words it.
FieldWithArguments(depth, head, args) ==
  Indent(depth) \o head \o <<"(">> \o
    (IF LineToParen(depth, head) + JoinedLength(args) > 80
     THEN <<"\n">> \o ArgumentLines(args, depth + 1) \o Indent(depth) \o <<")">>
     ELSE join(args, <<",", " ">>) \o <<")">>)

FieldHead(f) ==
  IF f.alias # << >> THEN f.alias[1] \o <<":", " ">> \o f.name ELSE f.name

\* query { f(args) }
IsQueryArgumentCase ==
  /\ entry = "query" /\ Len(doc) = 1
  /\ doc[1] \in QueryArgumentDefs
  /\ doc[1].selection_set[1].arguments # << >>

\* query { g { x: f(args) { a } } }
IsNestedArgumentCase ==
  /\ entry = "query" /\ Len(doc) = 1
  /\ doc[1] \in QueryArgumentDefs
  /\ doc[1].selection_set[1].arguments = << >>

\* type A { f(args): Int }
IsSchemaArgumentCase ==
  /\ entry = "schema" /\ Len(doc) = 1
  /\ doc[1] \in SchemaArgumentDefs

\* C8: a field's argument list is rendered multi-line if and only if
\* L + A > 80, in query documents and in schema field blocks alike: in the
\* multi-line form every argument is on its own line one level deeper than
\* the field and followed by ",", and the closing parenthesis starts a line
\* at the field's indentation; in the inline form the comma-joined
\* arguments and the closing parenthesis stay on the field's line.
WrapsPastEighty ==
  Returned =>
    /\ IsQueryArgumentCase =>
         LET f == doc[1].selection_set[1]
         IN result[1] =
              <<"q", "u", "e", "r", "y", " ", "{", "\n">>
              \o FieldWithArguments(1, FieldHead(f),
                                    sort_unstable(QueryArgStrings(f.arguments)))
              \o <<"\n", "}">>
    /\ IsNestedArgumentCase =>
         LET f == doc[1].selection_set[1].selection_set[1]
         IN result[1] =
              <<"q", "u", "e", "r", "y", " ", "{", "\n", " ", " ", "g", " ", "{", "\n">>
              \o FieldWithArguments(2, FieldHead(f),
                                    sort_unstable(QueryArgStrings(f.arguments)))
              \o <<" ", "{", "\n">> \o Indent(3) \o <<"a", "\n">>
              \o Indent(2) \o <<"}", "\n">> \o Indent(1) \o <<"}", "\n", "}">>
    /\ IsSchemaArgumentCase =>
         LET f == doc[1].fields[1]
         IN result[1] =
              <<"t", "y", "p", "e", " ", "A", " ", "{", "\n">>
              \o FieldWithArguments(1, f.name,
                                    sort_unstable(SchemaArgStrings(f.arguments,
                                                                   st.build)))
              \o <<":", " ">> \o f.field_type \o <<"\n", "}">>

\* A query was returned whose field has a projected line of exactly 80
\* columns.
WrapsPastEightyWitness ==
  /\ Returned /\ IsQueryArgumentCase
  /\ LET f == doc[1].selection_set[1]
     IN LineToParen(1, FieldHead(f))
          + JoinedLength(sort_unstable(QueryArgStrings(f.arguments))) = 80

\* A definition's rendering without the line ends that follow it.
trim_end(s) ==
  IF \A i \in 1..Len(s) : IsSpace(s[i]) THEN << >>
  ELSE LET last == CHOOSE i \in 1..Len(s) :
                      ~IsSpace(s[i]) /\ \A j \in (i + 1)..Len(s) : IsSpace(s[j])
       IN SubSeq(s, 1, last)

\* C9: the text format_query returns is the renderings of the definitions
\* in order, each followed by exactly one blank line and then the next
\* one, with no white space at either end of the whole.
QueryBlankLineBetweenDefinitions ==
  (entry = "query" /\ Returned) =>
    /\ result[1] =
         trim(join([i \in 1..Len(doc) |->
                      trim_end(query_format_def(doc[i], NewState(INDENT_SIZE, st.build)).buf)],
                   <<"\n", "\n">>))
    /\ result[1] = trim(result[1])

\* An input value at the block's indentation, its description on the line
\* above it.
InputValueText(v) ==
  (IF v.description # << >>
   THEN Indent(1) \o <<"\"">> \o v.description[1] \o <<"\"", "\n">> ELSE << >>)
  \o Indent(1) \o v.name \o <<":", " ">> \o v.value_type

\* What follows entry i of n under the spacing rule as claimed.
ClaimedSpacing(i, n, has_docs) ==
  IF has_docs THEN <<"\n", "\n">> ELSE <<"\n">>

\* What follows entry i of n in a block as the code prints it.
PrintedSpacing(i, n, has_docs) ==
  IF ~has_docs THEN <<"\n">>
  ELSE IF i < n THEN <<"\n", "\n">>
  ELSE IF n > 1 THEN <<"\n">>
  ELSE << >>

\* The entries of a block, each followed by its spacing: the claimed one or
\* the printed one.
InputBlockText(values, claimed) ==
  LET n == Len(values)
      has_docs == Described(values) # {}
      F[i \in 0..n] ==
        IF i = 0 THEN << >>
        ELSE F[i - 1] \o InputValueText(values[i]) \o (IF claimed THEN ClaimedSpacing(i, n, has_docs)
                      ELSE PrintedSpacing(i, n, has_docs))
  IN F[n]

\* input I { values }, alone in its document
IsInputBlockCase ==
  /\ entry = "schema" /\ Len(doc) = 1
  /\ doc[1].kind = "TypeDefinition" /\ doc[1].type = "InputObject"
  /\ doc[1].input_fields # << >>

InputBlockHeader ==
  <<"i", "n", "p", "u", "t", " ">> \o doc[1].name \o <<" ", "{", "\n">>

\* C10, as claimed: with a description on at least one entry, every entry
\* of an input-object block, the last and a sole one included, is followed
\* by a blank line; with none, every entry is followed by one newline.
InputBlockSpacingClaimed ==
  (Returned /\ IsInputBlockCase) =>
    result[1] =
      InputBlockHeader
      \o InputBlockText(sort_unstable_by_key(doc[1].input_fields,
                                             NameKeys(doc[1].input_fields),
                                             st.build.tie),
                        TRUE)
      \o <<"}">>

\* C10, amended: with a description on at least one entry, every entry but
\* the last is followed by a blank line, the last of several entries by one
\* newline and a sole entry by nothing; with none, every entry is followed
\* by one newline.
InputBlockSpacing ==
  (Returned /\ IsInputBlockCase) =>
    result[1] =
      InputBlockHeader
      \o InputBlockText(sort_unstable_by_key(doc[1].input_fields,
                                             NameKeys(doc[1].input_fields),
                                             st.build.tie),
                        FALSE)
      \o <<"}">>

\* A block of three input values, one of them described, was returned.
InputBlockSpacingWitness ==
  /\ Returned /\ IsInputBlockCase
  /\ Len(doc[1].input_fields) = 3
  /\ Described(doc[1].input_fields) # {}

\* The sequences that hold the elements of s in another order.
Permuted(s) ==
  {[i \in 1..Len(s) |-> s[p[i]]] : p \in Permutations(1..Len(s))}

\* C11: the text format_query returns for a definition does not depend on
\* the source order of its selections: every permutation of the selection
\* set renders to the returned text.
SelectionOrderIrrelevant ==
  (entry = "query" /\ Returned /\ Len(doc) = 1) =>
    \A set \in Permuted(doc[1].selection_set) :
      Finish(query_format_def([doc[1] EXCEPT !.selection_set = set],
                              NewState(INDENT_SIZE, st.build)))
        = Outcome("ok", result[1])

\* C12: the arguments of a schema field with pairwise distinct argument
\* names are rendered in ascending order of argument name, described or
\* not, under the wrap rule of query fields.
SchemaArgumentsInNameOrder ==
  (Returned /\ IsSchemaArgumentCase) =>
    LET f == doc[1].fields[1]
        by_name == sort_unstable_by_key(f.arguments, NameKeys(f.arguments),
                                       st.build.tie)
    IN (\A i, j \in 1..Len(by_name) : i < j => by_name[i].name # by_name[j].name)
       => result[1] =
            <<"t", "y", "p", "e", " ", "A", " ", "{", "\n">>
            \o FieldWithArguments(1, f.name,
                                  SchemaArgStrings(by_name, st.build))
            \o <<":", " ">> \o f.field_type \o <<"\n", "}">>

\* The root operation types a schema block declares, as <<keyword, type>>.
DeclaredRoots(def) ==
  (IF def.query # << >> THEN << <<OperationTypeToString("Query"), def.query[1]>> >>
   ELSE << >>)
  \o (IF def.mutation # << >>
      THEN << <<OperationTypeToString("Mutation"), def.mutation[1]>> >>
      ELSE << >>)
  \o (IF def.subscription # << >>
      THEN << <<OperationTypeToString("Subscription"), def.subscription[1]>> >>
      ELSE << >>)

\* The source text of a schema block that declares `roots` in their order.
SchemaBlockSource(roots) ==
  <<"s", "c", "h", "e", "m", "a", " ", "{">>
  \o join([i \in 1..Len(roots) |->
             <<" ">> \o roots[i][1] \o <<":", " ">> \o roots[i][2]], << >>)
  \o <<" ", "}">>

\* One line per declared root type of `roots` with the keyword `keyword`.
RootLinesOf(roots, keyword) ==
  join([i \in 1..Len(roots) |->
          IF roots[i][1] = keyword
          THEN Indent(1) \o keyword \o <<":", " ">> \o roots[i][2] \o <<"\n">>
          ELSE << >>], << >>)

\* The schema block in the order mutation, query, subscription.
SchemaBlockText(roots) ==
  <<"s", "c", "h", "e", "m", "a", " ", "{", "\n">>
  \o RootLinesOf(roots, OperationTypeToString("Mutation"))
  \o RootLinesOf(roots, OperationTypeToString("Query"))
  \o RootLinesOf(roots, OperationTypeToString("Subscription"))
  \o <<"}">>

IsSchemaBlockCase ==
  /\ entry = "schema" /\ Len(doc) = 1 /\ doc[1].kind = "SchemaDefinition"

\* C13: a schema block is returned with one "keyword: Type" line per
\* declared root type and none for an absent one, in the order mutation,
\* query, subscription, in whatever order the source declares them.
RootTypesInFixedOrder ==
  (Returned /\ IsSchemaBlockCase) =>
    /\ result[1] = SchemaBlockText(DeclaredRoots(doc[1]))
    /\ \A roots \in Permuted(DeclaredRoots(doc[1])) :
         schema_format(SchemaBlockSource(roots), st.build)
           = Outcome("ok", SchemaBlockText(DeclaredRoots(doc[1])))

\* A schema block that declares the three root types was returned.
RootTypesInFixedOrderWitness ==
  /\ Returned /\ IsSchemaBlockCase
  /\ Len(DeclaredRoots(doc[1])) = 3

\* What identifies a query definition in the text: its kind and name, the
\* type condition of a fragment and the variable definitions in their order.
QueryDefinitionHeader(def) ==
  <<def.kind, def.name, def.type_condition, def.variable_definitions>>

\* type A implements names { a: Int }
IsImplementsCase ==
  /\ entry = "schema" /\ Len(doc) = 1
  /\ doc[1].kind = "TypeDefinition" /\ doc[1].type = "Object"
  /\ doc[1].implements_interfaces # << >>
  /\ doc[1].fields = OneField

\* C14: source order is kept for the top-level definitions of a query and
\* of a schema document, for the variable definitions of an operation, and
\* for the interfaces an object implements, which are joined by " & ".
SourceOrderPreserved ==
  Returned =>
    /\ (entry = "query") =>
         LET ast == parse_query(result[1])
         IN /\ ast.ok
            /\ Len(ast.v) = Len(doc)
            /\ \A i \in 1..Len(doc) :
                 QueryDefinitionHeader(ast.v[i]) = QueryDefinitionHeader(doc[i])
    /\ (entry = "schema" /\ Len(doc) > 1) =>
         LET ast == parse_schema(result[1])
         IN /\ ast.ok
            /\ Len(ast.v) = Len(doc)
            /\ \A i \in 1..Len(doc) :
                 /\ ast.v[i].kind = doc[i].kind
                 /\ ast.v[i].type = doc[i].type
                 /\ ast.v[i].name = doc[i].name
    /\ IsImplementsCase =>
         result[1] =
           <<"t", "y", "p", "e", " ">> \o doc[1].name
           \o <<" ", "i", "m", "p", "l", "e", "m", "e", "n", "t", "s", " ">>
           \o join(doc[1].implements_interfaces, <<" ", "&", " ">>)
           \o <<" ", "{", "\n", " ", " ", "a", ":", " ", "I", "n", "t", "\n", "}">>

\* An object was returned whose interfaces are declared in descending
\* order of name.
SourceOrderPreservedWitness ==
  /\ Returned /\ IsImplementsCase
  /\ Len(doc[1].implements_interfaces) > 1
  /\ StrLess(doc[1].implements_interfaces[2], doc[1].implements_interfaces[1])

\* The names of the members of a sorted list of a type definition: fields,
\* enum values, input values, or the member types of a union.
MemberNames(def) ==
  CASE def.type \in {"Object", "Interface"} ->
         [i \in 1..Len(def.fields) |-> def.fields[i].name]
    [] def.type = "Enum" -> [i \in 1..Len(def.values) |-> def.values[i].name]
    [] def.type = "InputObject" ->
         [i \in 1..Len(def.input_fields) |-> def.input_fields[i].name]
    [] def.type = "Union" -> def.types
    [] OTHER -> << >>

\* A type definition printed with an empty block of members, or a union
\* without member types.
IsMemberless(def) ==
  /\ def.kind = "TypeDefinition" /\ def.type # "Scalar"
  /\ MemberNames(def) = << >>

\* The descriptions of a type definition, of its members and of their
\* arguments.
DescriptionsOf(def) ==
  {def.description}
  \cup {def.fields[i].description : i \in 1..Len(def.fields)}
  \cup UNION {{def.fields[i].arguments[j].description :
                 j \in 1..Len(def.fields[i].arguments)} :
              i \in 1..Len(def.fields)}
  \cup {def.values[i].description : i \in 1..Len(def.values)}
  \cup {def.input_fields[i].description : i \in 1..Len(def.input_fields)}

\* The descriptions of the definition are printed as strings the parser
\* reads back: push_desc puts a description between quotes as it is, and
\* none holds a newline, a quote or a backslash.
PrintsDescriptions(def) ==
  \A desc \in DescriptionsOf(def) :
    \A i \in 1..Len(desc) : \A k \in 1..Len(desc[i]) :
      desc[i][k] \notin {"\n", "\"", "\\"}

\* union U = members
IsUnionCase ==
  /\ entry = "schema" /\ Len(doc) = 1
  /\ doc[1].kind = "TypeDefinition" /\ doc[1].type = "Union"
  /\ doc[1].types # << >>

\* C15: in the text format_schema returns, the fields of an object and of
\* an interface, the values of an enum, the input values of an input object
\* and the member types of a union are the input's members in non-decreasing
\* order of name, the member types joined by " | ".  The members are read
\* back from the returned text, where it holds no empty block and every
\* description is printed as a string.
SchemaListsSorted ==
  (entry = "schema" /\ Returned) =>
    /\ (\A i \in 1..Len(doc) :
          ~IsMemberless(doc[i]) /\ PrintsDescriptions(doc[i])) =>
         LET ast == parse_schema(result[1])
         IN /\ ast.ok
            /\ Len(ast.v) = Len(doc)
            /\ \A i \in 1..Len(doc) :
                 doc[i].kind = "TypeDefinition" =>
                   LET printed == MemberNames(ast.v[i])
                   IN /\ IsPermutation(printed, MemberNames(doc[i]))
                      /\ \A j, k \in 1..Len(printed) :
                           j < k => StrLeq(printed[j], printed[k])
    /\ IsUnionCase =>
         result[1] =
           <<"u", "n", "i", "o", "n", " ">> \o doc[1].name \o <<" ", "=", " ">>
           \o join(sort_unstable(doc[1].types), <<" ", "|", " ">>)

\* An object, interface, enum, input object or union was returned whose
\* three members stand in descending order of name in the input.
SchemaListsSortedWitness ==
  /\ entry = "schema" /\ Returned /\ Len(doc) = 1
  /\ doc[1].kind = "TypeDefinition"
  /\ Len(MemberNames(doc[1])) = 3
  /\ StrLess(MemberNames(doc[1])[3], MemberNames(doc[1])[2])
  /\ StrLess(MemberNames(doc[1])[2], MemberNames(doc[1])[1])

\* C16: the text format_schema returns is the renderings of the top-level
\* definitions (schema block, object, interface, input object, enum,
\* scalar, union) in order, each followed by exactly one blank line and
\* then the next one, with no white space at either end of the whole.
SchemaBlankLineBetweenDefinitions ==
  (entry = "schema" /\ Returned) =>
    /\ result[1] =
         join([i \in 1..Len(doc) |->
                 trim_end(schema_format_def(doc[i], NewState(INDENT_SIZE, st.build)).buf)],
              <<"\n", "\n">>)
    /\ result[1] = trim(result[1])
    /\ result[1] # << >>

\* A schema document of several definitions was returned, a scalar and a
\* union among them.
SchemaBlankLineBetweenDefinitionsWitness ==
  /\ entry = "schema" /\ Returned /\ Len(doc) > 1
  /\ \E i, j \in 1..Len(doc) : doc[i].type = "Scalar" /\ doc[j].type = "Union"

\* "$name: Type", with " = default" when the variable has a default.
VariableEntry(var) ==
  <<"$">> \o var.name \o <<":", " ">> \o var.var_type
  \o join([i \in 1..Len(var.default_value) |->
             <<" ", "=", " ">> \o var.default_value[i]], << >>)

\* The header of an operation as the rule words it.
OperationHeader(op) ==
  LET entries == [i \in 1..Len(op.variable_definitions) |->
                    VariableEntry(op.variable_definitions[i])]
      list == <<"(">> \o join(entries, <<",", " ">>) \o <<")">>
  IN OperationTypeToString(op.kind)
     \o (IF op.name # << >> THEN <<" ">> \o op.name[1] ELSE << >>)
     \o (IF op.variable_definitions = << >> THEN << >>
         ELSE IF op.name # << >> THEN list
         ELSE <<" ">> \o list)

\* A query, mutation or subscription over the selection set { a }, alone in
\* its document.
IsOperationHeaderCase ==
  /\ entry = "query" /\ Len(doc) = 1
  /\ doc[1].kind \in {"Query", "Mutation", "Subscription"}
  /\ doc[1].selection_set = OneLeaf

\* C17: an operation's header is the keyword, then " Name" when it is
\* named, then, when it has variable definitions, the parenthesized list of
\* "$name: Type" entries in source order joined by ", ", each with
\* " = default" exactly when it has a default, directly after the name or
\* one space after the keyword of an unnamed operation.
OperationHeaderRendered ==
  (Returned /\ IsOperationHeaderCase) =>
    result[1] =
      OperationHeader(doc[1]) \o <<" ", "{", "\n", " ", " ", "a", "\n", "}">>

\* An unnamed operation was returned that has several variable definitions,
\* one with a default and one without.
OperationHeaderRenderedWitness ==
  /\ Returned /\ IsOperationHeaderCase
  /\ doc[1].name = << >>
  /\ \E i, j \in 1..Len(doc[1].variable_definitions) :
       /\ doc[1].variable_definitions[i].default_value # << >>
       /\ doc[1].variable_definitions[j].default_value = << >>

\* The depths at which the printer routines are entered.
Depths == 0..1

\* A printer entered at depth d with an empty buffer.
AtDepth(d) == [NewState(INDENT_SIZE, st.build) EXCEPT !.count = d, !.low = d]

\* The routine that was entered at depth d and ended in s kept the counter
\* at d or above and, where it did not abort, returned at d.
Balanced(s, d) == s.low >= d /\ (s.panic \/ s.count = d)

\* C18: in a traversal that does not abort the depth counter never goes
\* below zero and is zero after every top-level definition and when the
\* call returns; every printer routine (definition, selection set, field
\* with its arguments, schema field block, field, input-value block, type)
\* returns at the depth it was entered with and never goes below it; the
\* rendered indentation is depth times 2 spaces.  The routines are run on
\* each definition when the traversal reaches it.
IndentationBalanced ==
  /\ st.low >= 0
  /\ pc # "panic" =>
       /\ st.count = 0
       /\ spaces(st) = << >>
  /\ (pc # "done" /\ doc # << >>) =>
       \A d \in Depths :
         LET def == doc[Len(doc)]
         IN /\ spaces(AtDepth(d)) = Indent(d)
            /\ (entry = "query") =>
                 /\ Balanced(query_format_def(def, AtDepth(d)), d)
                 /\ \A set \in DocSelectionSets(<<def>>) :
                      Balanced(format_selection_set(set, AtDepth(d)), d)
                 /\ \A sel \in DocSelections(<<def>>) :
                      sel.kind = "Field" =>
                        Balanced(format_field(sel, AtDepth(d)), d)
            /\ (entry = "schema") =>
                 /\ Balanced(schema_format_def(def, AtDepth(d)), d)
                 /\ def.kind = "TypeDefinition" =>
                      /\ Balanced(format_type(def, AtDepth(d)), d)
                      /\ Balanced(format_fields(def.fields, AtDepth(d)), d)
                      /\ Balanced(format_input_values(def.input_fields,
                                                      AtDepth(d)), d)
                      /\ \A k \in 1..Len(def.fields) :
                           Balanced(schema_format_field(def.fields[k],
                                                        AtDepth(d)), d)

\* A query was returned whose field, two selection sets deep, has its
\* arguments wrapped.
IndentationBalancedWitness ==
  /\ Returned /\ IsNestedArgumentCase
  /\ LET f == doc[1].selection_set[1].selection_set[1]
     IN LineToParen(2, FieldHead(f))
          + JoinedLength(sort_unstable(QueryArgStrings(f.arguments))) > 80

\* C19: in every returned text each closing brace stands on a line of its
\* own, with nothing but indentation before it: no field, input value or
\* selection shares the line of the closing brace of its block.
ClosingBraceOnOwnLine ==
  Returned =>
    \A i \in 1..Len(result[1]) :
      result[1][i] = "}" =>
        \E j \in 0..(i - 1) :
          /\ j = 0 \/ result[1][j] = "\n"
          /\ \A k \in (j + 1)..(i - 1) : result[1][k] = " "

\* The last line of the buffer as the rule words it: nothing for an empty
\* buffer; the text after the last newline when the buffer does not end
\* with one; the text of the line just ended when it does. The newline that
\* ends a line is a line feed, or a carriage return and a line feed.
LastLine(buf) ==
  LET AfterLastNewline(b) ==
        SubSeq(b, 1 + Cardinality({i \in 1..Len(b) :
                                     \E j \in i..Len(b) : b[j] = "\n"}), Len(b))
      Ended(b) ==
        IF Len(b) >= 2 /\ b[Len(b) - 1] = "\r"
        THEN SubSeq(b, 1, Len(b) - 2) ELSE SubSeq(b, 1, Len(b) - 1)
  IN IF buf = << >> THEN << >>
     ELSE IF buf[Len(buf)] # "\n" THEN AfterLastNewline(buf)
     ELSE AfterLastNewline(Ended(buf))

\* C20: after any sequence of appends, current_line is the last line of
\* the buffer, where a newline at the very end of the buffer starts no new
\* line, and current_line_length is the length of that line. A carriage
\* return before the newline that ends the line belongs to the newline.
CurrentLineIsLastLine ==
  (entry = "output" /\ pc = "done") =>
    /\ result[1] = LastLine(st.buf)
    /\ again[1] = Len(LastLine(st.buf))

\* The current line was asked for of a buffer of several lines that ends
\* with a newline after a non-empty line.
CurrentLineIsLastLineWitness ==
  /\ entry = "output" /\ pc = "done"
  /\ Len(st.buf) > 3
  /\ st.buf[Len(st.buf)] = "\n"
  /\ st.buf[Len(st.buf) - 1] # "\n"
  /\ \E i \in 1..(Len(st.buf) - 1) : st.buf[i] = "\n"
  /\ result[1] # << >>

====
